---- MODULE Spec2Model ----
(***************************************************************************)
(* A model of the lazy iteration library (luvies/lazy): the Lazy sequence  *)
(* classes, the iterator (cursor) classes behind them and the window       *)
(* Queue.  A Sequence is a record naming its class and holding its inputs  *)
(* and callbacks; a cursor is a record holding the fields of the iterator  *)
(* object.  Every call of next() on an array iterator and every call of a  *)
(* caller-supplied callback is appended to the log, in program order.      *)
(***************************************************************************)
EXTENDS Integers, Sequences, FiniteSets, TLC

VARIABLES chain, cursors, out, doneCalls, log, error

vars == <<chain, cursors, out, doneCalls, log, error>>

(***************************************************************************)
(* Bounds of the model.                                                    *)
(***************************************************************************)
MaxLen == 2

MaxLenB == 1

MaxDoneCalls == 2

(***************************************************************************)
(* Values.  Elements are naturals (0 is the falsy one); Undefined stands   *)
(* for the JavaScript value undefined.                                     *)
(***************************************************************************)
Undefined == -1

Elems == {0, 1, 2}

RECURSIVE SeqsUpTo(_, _)
SeqsUpTo(S, n) ==
    IF n = 0 THEN {<<>>}
    ELSE LET shorter == SeqsUpTo(S, n - 1)
         IN  shorter \cup {Append(s, x) : s \in {t \in shorter : Len(t) = n - 1}, x \in S}

Truthy(v) == v # Undefined /\ v # 0

NoError == "none"

NoSeq == [op |-> "none"]

NoCursor == [cls |-> "none", next |-> "next"]

(***************************************************************************)
(* Events of the log.                                                      *)
(***************************************************************************)
PullEv(name) == [k |-> "next", n |-> name]

CallEv(fn) == [k |-> "call", n |-> fn]

(***************************************************************************)
(* Caller-supplied callbacks, drawn from a fixed family of named           *)
(* functions of (element, index).                                          *)
(***************************************************************************)
RECURSIVE DownFrom(_)
DownFrom(x) == IF x <= 0 THEN <<>> ELSE <<x>> \o DownFrom(x - 1)

Call(fn, x, i) ==
    CASE fn = "identity" -> x
      [] fn = "succ" -> x + 1
      [] fn = "plusIndex" -> x + i
      [] fn = "half" -> x \div 2
      [] fn = "isEven" -> x % 2 = 0
      [] fn = "isPositive" -> x > 0
      [] fn = "indexIsZero" -> i = 0
      [] fn = "downFrom" -> DownFrom(x)
      [] fn = "ifPositive" -> IF x > 0 THEN x ELSE Undefined

(***************************************************************************)
(* Iterator results.                                                       *)
(***************************************************************************)
Yield(v, cur, ev) == [done |-> FALSE, value |-> v, cur |-> cur, ev |-> ev]

doneNext(cur, ev) == [done |-> TRUE, value |-> Undefined, cur |-> cur, ev |-> ev]

\* A done that reports exhaustion without replacing the cursor's next.
doneUnlatched(iterator, ev) == doneNext(iterator, ev)

done(iterator, ev) == doneNext([iterator EXCEPT !.next = "doneNext"], ev)

After(ev, r) == [r EXCEPT !.ev = ev \o @]

Ok(cur, ev) == [cur |-> cur, ev |-> ev, err |-> NoError]

Fail(err, ev) == [cur |-> NoCursor, ev |-> ev, err |-> err]

RECURSIVE Symbol_iterator(_), next(_)

(***************************************************************************)
(* The native array iterator.                                              *)
(***************************************************************************)
ArrayIterator(arr, name) ==
    [cls |-> "ArrayIterator", arr |-> arr, index |-> 0, name |-> name, next |-> "next"]

ArrayIterator_next(this) ==
    LET ev == IF this.name = "" THEN <<>> ELSE <<PullEv(this.name)>>
    IN  IF this.index < Len(this.arr)
        THEN Yield(this.arr[this.index + 1], [this EXCEPT !.index = @ + 1], ev)
        ELSE doneNext(this, ev)

(***************************************************************************)
(* LazyRangeIterator and LazyRepeatIterator.  Infinity stands for the      *)
(* JavaScript value +Infinity, the default of range's end and of repeat's  *)
(* count; GreaterEq compares a finite number with a number that may be      *)
(* +Infinity.                                                              *)
(***************************************************************************)
Infinity == -2

GreaterEq(a, b) == b # Infinity /\ a >= b

\* A range cursor that always counts upwards.
LazyRangeIteratorAscending(start, end) ==
    Ok([cls |-> "LazyRangeIterator", index |-> start, end |-> end,
        direction |-> 1, next |-> "next"], <<>>)

LazyRangeIterator(start, end) ==
    Ok([cls |-> "LazyRangeIterator", index |-> start, end |-> end,
        direction |-> IF end # Infinity /\ end < start THEN -1 ELSE 1,
        next |-> "next"], <<>>)

\* A next() for which a missing end is not +Infinity but an ordinary number.
LazyRangeIterator_nextFinite(this) ==
    IF (IF this.direction > 0 THEN this.index >= this.end ELSE this.index <= this.end)
    THEN done(this, <<>>)
    ELSE Yield(this.index, [this EXCEPT !.index = @ + this.direction], <<>>)

LazyRangeIterator_next(this) ==
    IF (IF this.direction > 0 THEN GreaterEq(this.index, this.end)
        ELSE this.index <= this.end)
    THEN done(this, <<>>)
    ELSE Yield(this.index, [this EXCEPT !.index = @ + this.direction], <<>>)

LazyRepeatIterator(element, count) ==
    Ok([cls |-> "LazyRepeatIterator", index |-> 0, element |-> element,
        count |-> count, next |-> "next"], <<>>)

LazyRepeatIterator_next(this) ==
    IF GreaterEq(this.index, this.count) THEN done(this, <<>>)
    ELSE Yield(this.element, [this EXCEPT !.index = @ + 1], <<>>)

(***************************************************************************)
(* for (const element of iterable) { fns... }: obtains a cursor and drains *)
(* it, calling the callbacks fns on each element as it is pulled.          *)
(***************************************************************************)
NoFn == ""

RECURSIVE CallEvs(_)
CallEvs(fns) == IF fns = <<>> THEN <<>> ELSE <<CallEv(Head(fns))>> \o CallEvs(Tail(fns))

RECURSIVE Drain(_, _, _, _)
Drain(it, fns, acc, ev) ==
    LET Pulled(r) ==
            IF r.done THEN [vals |-> acc, ev |-> ev \o r.ev, err |-> NoError]
            ELSE Drain(r.cur, fns, Append(acc, r.value), ev \o r.ev \o CallEvs(fns))
    IN  Pulled(next(it))

ForOf(iterable, fns) ==
    LET Over(it) ==
            IF it.err # NoError THEN [vals |-> <<>>, ev |-> it.ev, err |-> it.err]
            ELSE Drain(it.cur, fns, <<>>, it.ev)
    IN  Over(Symbol_iterator(iterable))

Given(fn) == IF fn = NoFn THEN <<>> ELSE <<fn>>

KeyOf(compareOn, x) == IF compareOn = NoFn THEN x ELSE Call(compareOn, x, 0)

Combine(fn, a, b) ==
    CASE fn = NoFn -> <<a, b>>
      [] fn = "pair" -> <<a, b>>
      [] fn = "sum" -> a + b
      [] fn = "doubleAndAdd" -> 2 * a + b

(***************************************************************************)
(* LazyAppendPrependIterator                                               *)
(***************************************************************************)
LazyAppendPrependIterator(iterable, element, atStart) ==
    LET it == Symbol_iterator(iterable)
    IN  IF it.err # NoError THEN it
        ELSE Ok([cls |-> "LazyAppendPrependIterator", iterator |-> it.cur,
                 started |-> FALSE, finished |-> FALSE, element |-> element,
                 atStart |-> atStart, next |-> "next"], it.ev)

LazyAppendPrependIterator_next(this) ==
    IF this.finished THEN done(this, <<>>)
    ELSE IF ~this.started /\ this.atStart
    THEN Yield(this.element, [this EXCEPT !.started = TRUE], <<>>)
    ELSE LET result == next(this.iterator)
             this1 == [this EXCEPT !.started = TRUE, !.iterator = result.cur]
         IN  IF result.done
             THEN IF ~this.atStart
                  THEN Yield(this.element, [this1 EXCEPT !.finished = TRUE], result.ev)
                  ELSE done([this1 EXCEPT !.finished = TRUE], result.ev)
             ELSE Yield(result.value, this1, result.ev)

(***************************************************************************)
(* LazyBatchInIterator                                                     *)
(***************************************************************************)
\* A constructor that clamps the batch size to at least 1.
LazyBatchInIteratorClamped(iterable, batchSize, includeIncomplete) ==
    LET it == Symbol_iterator(iterable)
    IN  IF it.err # NoError THEN it
        ELSE Ok([cls |-> "LazyBatchInIterator", iterator |-> it.cur, done |-> FALSE,
                 batchSize |-> IF batchSize < 1 THEN 1 ELSE batchSize,
                 includeIncomplete |-> includeIncomplete, next |-> "next"], it.ev)

LazyBatchInIterator(iterable, batchSize, includeIncomplete) ==
    LET it == Symbol_iterator(iterable)
    IN  IF it.err # NoError THEN it
        ELSE Ok([cls |-> "LazyBatchInIterator", iterator |-> it.cur, done |-> FALSE,
                 batchSize |-> batchSize, includeIncomplete |-> includeIncomplete,
                 next |-> "next"], it.ev)

RECURSIVE LazyBatchInIterator_loop(_, _)
LazyBatchInIterator_loop(this, batch) ==
    LET result == next(this.iterator)
        this1 == [this EXCEPT !.iterator = result.cur]
    IN  IF result.done
        THEN IF Len(batch) > 0 /\ this.includeIncomplete
             THEN Yield(batch, [this1 EXCEPT !.done = TRUE], result.ev)
             ELSE done([this1 EXCEPT !.done = TRUE], result.ev)
        ELSE LET batch1 == Append(batch, result.value)
             IN  IF Len(batch1) = this.batchSize
                 THEN Yield(batch1, this1, result.ev)
                 ELSE After(result.ev, LazyBatchInIterator_loop(this1, batch1))

\* A next() that yields the trailing batch whatever includeIncomplete says.
LazyBatchInIterator_nextAlways(this) ==
    IF this.done THEN done(this, <<>>)
    ELSE LazyBatchInIterator_loop([this EXCEPT !.includeIncomplete = TRUE], <<>>)

LazyBatchInIterator_next(this) ==
    IF this.done THEN done(this, <<>>) ELSE LazyBatchInIterator_loop(this, <<>>)

(***************************************************************************)
(* LazyConcatIterator                                                      *)
(***************************************************************************)
RECURSIVE LazyConcatIterator_push(_, _, _)
LazyConcatIterator_push(iterables, iterators, ev) ==
    IF iterables = <<>>
    THEN Ok([cls |-> "LazyConcatIterator", iterators |-> iterators, current |-> 0,
             next |-> "next"], ev)
    ELSE LET it == Symbol_iterator(Head(iterables))
         IN  IF it.err # NoError THEN Fail(it.err, ev \o it.ev)
             ELSE LazyConcatIterator_push(Tail(iterables), Append(iterators, it.cur),
                                          ev \o it.ev)

LazyConcatIterator(iterables) == LazyConcatIterator_push(iterables, <<>>, <<>>)

RECURSIVE LazyConcatIterator_loop(_)
LazyConcatIterator_loop(this) ==
    IF this.current < Len(this.iterators)
    THEN LET result == next(this.iterators[this.current + 1])
             this1 == [this EXCEPT !.iterators[this.current + 1] = result.cur]
         IN  IF ~result.done THEN Yield(result.value, this1, result.ev)
             ELSE After(result.ev,
                        LazyConcatIterator_loop([this1 EXCEPT !.current = @ + 1]))
    ELSE done(this, <<>>)

LazyConcatIterator_next(this) ==
    IF this.current >= Len(this.iterators) THEN done(this, <<>>)
    ELSE LazyConcatIterator_loop(this)

(***************************************************************************)
(* LazyDefaultIfEmptyIterator                                              *)
(***************************************************************************)
LazyDefaultIfEmptyIterator(iterable, defaultValue) ==
    LET it == Symbol_iterator(iterable)
    IN  IF it.err # NoError THEN it
        ELSE Ok([cls |-> "LazyDefaultIfEmptyIterator", iterator |-> it.cur,
                 started |-> FALSE, done |-> FALSE, defaultValue |-> defaultValue,
                 next |-> "next"], it.ev)

LazyDefaultIfEmptyIterator_next(this) ==
    IF this.done THEN done(this, <<>>)
    ELSE LET result == next(this.iterator)
             this1 == [this EXCEPT !.iterator = result.cur, !.started = TRUE]
         IN  IF ~this.started /\ result.done
             THEN Yield(this.defaultValue, [this1 EXCEPT !.done = TRUE], result.ev)
             ELSE [result EXCEPT !.cur = this1]

(***************************************************************************)
(* LazyDistinctIterator                                                    *)
(***************************************************************************)
LazyDistinctIterator(iterable, compareOn) ==
    LET it == Symbol_iterator(iterable)
    IN  IF it.err # NoError THEN it
        ELSE Ok([cls |-> "LazyDistinctIterator", iterator |-> it.cur, found |-> {},
                 compareOn |-> compareOn, next |-> "next"], it.ev)

\* distinct that only drops an element whose key equals the previous element's.
RECURSIVE LazyDistinctIterator_nextAdjacent(_)
LazyDistinctIterator_nextAdjacent(this) ==
    LET result == next(this.iterator)
        this1 == [this EXCEPT !.iterator = result.cur]
    IN  IF result.done THEN done(this1, result.ev)
        ELSE LET key == KeyOf(this.compareOn, result.value)
                 ev == result.ev \o CallEvs(Given(this.compareOn))
             IN  IF key \notin this.found
                 THEN Yield(result.value, [this1 EXCEPT !.found = {key}], ev)
                 ELSE After(ev, LazyDistinctIterator_nextAdjacent(this1))

RECURSIVE LazyDistinctIterator_next(_)
LazyDistinctIterator_next(this) ==
    LET result == next(this.iterator)
        this1 == [this EXCEPT !.iterator = result.cur]
    IN  IF result.done THEN done(this1, result.ev)
        ELSE LET key == KeyOf(this.compareOn, result.value)
                 ev == result.ev \o CallEvs(Given(this.compareOn))
             IN  IF key \notin this.found
                 THEN Yield(result.value, [this1 EXCEPT !.found = @ \cup {key}], ev)
                 ELSE After(ev, LazyDistinctIterator_next(this1))

(***************************************************************************)
(* The native Map, as the sequence of its <<key, value>> entries in        *)
(* insertion order.                                                        *)
(***************************************************************************)
MapHas(map, key) == \E i \in 1..Len(map) : map[i][1] = key

MapGet(map, key) ==
    IF MapHas(map, key) THEN map[CHOOSE i \in 1..Len(map) : map[i][1] = key][2]
    ELSE Undefined

MapSet(map, key, value) ==
    IF MapHas(map, key)
    THEN [i \in 1..Len(map) |-> IF map[i][1] = key THEN <<key, value>> ELSE map[i]]
    ELSE Append(map, <<key, value>>)

(***************************************************************************)
(* toArray and toMap of the aggregates.                                    *)
(***************************************************************************)
toArray(iterable) == ForOf(iterable, <<>>)

RECURSIVE toMap_loop(_, _, _, _, _)
toMap_loop(it, keyFn, valueFn, map, ev) ==
    LET Pulled(r) ==
            IF r.done THEN [map |-> map, ev |-> ev \o r.ev, err |-> NoError]
            ELSE LET key == Call(keyFn, r.value, 0)
                     ev1 == ev \o r.ev \o <<CallEv(keyFn)>>
                 IN  IF MapHas(map, key)
                     THEN [map |-> map, ev |-> ev1, err |-> "Duplicate key found"]
                     ELSE toMap_loop(r.cur, keyFn, valueFn,
                                     MapSet(map, key, KeyOf(valueFn, r.value)),
                                     ev1 \o CallEvs(Given(valueFn)))
    IN  Pulled(next(it))

\* toMap without the duplicate-key check: a later element replaces an earlier one.
RECURSIVE toMapOverwrite_fold(_, _, _, _)
toMapOverwrite_fold(vals, keyFn, valueFn, map) ==
    IF vals = <<>> THEN map
    ELSE toMapOverwrite_fold(Tail(vals), keyFn, valueFn,
                             MapSet(map, Call(keyFn, Head(vals), 0),
                                    KeyOf(valueFn, Head(vals))))

toMapOverwrite(iterable, keyFn, valueFn) ==
    LET Over(src) ==
            [map |-> toMapOverwrite_fold(src.vals, keyFn, valueFn, <<>>),
             ev |-> src.ev, err |-> src.err]
    IN  Over(ForOf(iterable, <<keyFn>> \o Given(valueFn)))

\* toMap that reads the whole input before it looks for duplicate keys.
toMapAfterDraining(iterable, keyFn, valueFn) ==
    LET Over(src) ==
            IF src.err # NoError THEN [map |-> <<>>, ev |-> src.ev, err |-> src.err]
            ELSE toMap_loop(ArrayIterator(src.vals, ""), keyFn, valueFn, <<>>, src.ev)
    IN  Over(ForOf(iterable, <<>>))

toMap(iterable, keyFn, valueFn) ==
    LET Over(it) ==
            IF it.err # NoError THEN [map |-> <<>>, ev |-> it.ev, err |-> it.err]
            ELSE toMap_loop(it.cur, keyFn, valueFn, <<>>, it.ev)
    IN  Over(Symbol_iterator(iterable))

(***************************************************************************)
(* LazyExceptIterator                                                      *)
(***************************************************************************)
KeySet(vals, compareOn) == {KeyOf(compareOn, vals[i]) : i \in 1..Len(vals)}

LazyExceptIterator(firstIterable, secondIterable, compareOn) ==
    LET it == Symbol_iterator(firstIterable)
        Built(second) ==
            IF it.err # NoError THEN it
            ELSE IF second.err # NoError THEN Fail(second.err, it.ev \o second.ev)
            ELSE Ok([cls |-> "LazyExceptIterator", firstIterator |-> it.cur,
                     set |-> KeySet(second.vals, compareOn), compareOn |-> compareOn,
                     next |-> "next"], it.ev \o second.ev)
    IN  Built(ForOf(secondIterable, Given(compareOn)))

RECURSIVE LazyExceptIterator_next(_)
LazyExceptIterator_next(this) ==
    LET result == next(this.firstIterator)
        this1 == [this EXCEPT !.firstIterator = result.cur]
    IN  IF result.done THEN done(this1, result.ev)
        ELSE LET key == KeyOf(this.compareOn, result.value)
                 ev == result.ev \o CallEvs(Given(this.compareOn))
             IN  IF key \notin this.set
                 THEN Yield(result.value, [this1 EXCEPT !.set = @ \cup {key}], ev)
                 ELSE After(ev, LazyExceptIterator_next(this1))

(***************************************************************************)
(* LazyIntersectIterator                                                   *)
(***************************************************************************)
LazyIntersectIterator(firstIterable, secondIterable, compareOn) ==
    LET it == Symbol_iterator(firstIterable)
        Built(second) ==
            IF it.err # NoError THEN it
            ELSE IF second.err # NoError THEN Fail(second.err, it.ev \o second.ev)
            ELSE Ok([cls |-> "LazyIntersectIterator", firstIterator |-> it.cur,
                     set |-> KeySet(second.vals, compareOn), compareOn |-> compareOn,
                     next |-> "next"], it.ev \o second.ev)
    IN  Built(ForOf(secondIterable, Given(compareOn)))

\* intersect that keeps a matched key in the set.
RECURSIVE LazyIntersectIterator_nextKeeping(_)
LazyIntersectIterator_nextKeeping(this) ==
    LET result == next(this.firstIterator)
        this1 == [this EXCEPT !.firstIterator = result.cur]
    IN  IF result.done THEN done(this1, result.ev)
        ELSE LET key == KeyOf(this.compareOn, result.value)
                 ev == result.ev \o CallEvs(Given(this.compareOn))
             IN  IF key \in this.set THEN Yield(result.value, this1, ev)
                 ELSE After(ev, LazyIntersectIterator_nextKeeping(this1))

RECURSIVE LazyIntersectIterator_next(_)
LazyIntersectIterator_next(this) ==
    LET result == next(this.firstIterator)
        this1 == [this EXCEPT !.firstIterator = result.cur]
    IN  IF result.done THEN done(this1, result.ev)
        ELSE LET key == KeyOf(this.compareOn, result.value)
                 ev == result.ev \o CallEvs(Given(this.compareOn))
             IN  IF key \in this.set
                 THEN Yield(result.value, [this1 EXCEPT !.set = @ \ {key}], ev)
                 ELSE After(ev, LazyIntersectIterator_next(this1))

(***************************************************************************)
(* LazyGroupByIterator: the element map is built by the constructor and    *)
(* walked by a native Map iterator.                                        *)
(***************************************************************************)
\* grouping in which an element replaces the elements already under its key.
RECURSIVE GroupIntoReplacing(_, _, _, _)
GroupIntoReplacing(map, vals, keyFn, elementSelector) ==
    IF vals = <<>> THEN map
    ELSE GroupIntoReplacing(MapSet(map, Call(keyFn, Head(vals), 0),
                                   <<KeyOf(elementSelector, Head(vals))>>),
                            Tail(vals), keyFn, elementSelector)

RECURSIVE GroupInto(_, _, _, _)
GroupInto(map, vals, keyFn, elementSelector) ==
    IF vals = <<>> THEN map
    ELSE LET key == Call(keyFn, Head(vals), 0)
             result == KeyOf(elementSelector, Head(vals))
             arr == IF MapHas(map, key) THEN Append(MapGet(map, key), result)
                    ELSE <<result>>
         IN  GroupInto(MapSet(map, key, arr), Tail(vals), keyFn, elementSelector)

LazyGroupByIterator(iterable, keyFn, elementSelector, resultSelector) ==
    LET Built(src) ==
            IF src.err # NoError THEN Fail(src.err, src.ev)
            ELSE Ok([cls |-> "LazyGroupByIterator",
                     elementMapIterator |->
                         ArrayIterator(GroupInto(<<>>, src.vals, keyFn, elementSelector),
                                       ""),
                     resultSelector |-> resultSelector, next |-> "next"], src.ev)
    IN  Built(ForOf(iterable, <<keyFn>> \o Given(elementSelector)))

LazyGroupByIterator_next(this) ==
    LET result == next(this.elementMapIterator)
        this1 == [this EXCEPT !.elementMapIterator = result.cur]
    IN  IF result.done THEN done(this1, result.ev)
        ELSE IF this.resultSelector = NoFn
        THEN Yield([key |-> result.value[1], elements |-> result.value[2]], this1,
                   result.ev)
        ELSE Yield(Combine(this.resultSelector, result.value[1], result.value[2]),
                   this1, result.ev \o <<CallEv(this.resultSelector)>>)

(***************************************************************************)
(* LazyGroupJoinIterator                                                   *)
(***************************************************************************)
LazyGroupJoinIterator(firstIterable, secondIterable, firstKeyFn, secondKeyFn, joinFn) ==
    LET it == Symbol_iterator(firstIterable)
        Built(second) ==
            IF it.err # NoError THEN it
            ELSE IF second.err # NoError THEN Fail(second.err, it.ev \o second.ev)
            ELSE Ok([cls |-> "LazyGroupJoinIterator", firstIterator |-> it.cur,
                     secondMap |-> GroupInto(<<>>, second.vals, secondKeyFn, NoFn),
                     firstKeyFn |-> firstKeyFn, joinFn |-> joinFn, next |-> "next"],
                    it.ev \o second.ev)
    IN  Built(ForOf(secondIterable, <<secondKeyFn>>))

RECURSIVE LazyGroupJoinIterator_next(_)
\* group join that also yields a primary element that has no match, with no elements.
LazyGroupJoinIterator_nextOuter(this) ==
    LET result == next(this.firstIterator)
        this1 == [this EXCEPT !.firstIterator = result.cur]
        key == Call(this.firstKeyFn, result.value, 0)
        secondElements == IF MapHas(this.secondMap, key) THEN MapGet(this.secondMap, key)
                          ELSE <<>>
    IN  IF result.done THEN done(this1, result.ev)
        ELSE Yield(Combine(this.joinFn, result.value, secondElements), this1,
                   result.ev \o <<CallEv(this.firstKeyFn), CallEv(this.joinFn)>>)

LazyGroupJoinIterator_next(this) ==
    LET result == next(this.firstIterator)
        this1 == [this EXCEPT !.firstIterator = result.cur]
    IN  IF result.done THEN done(this1, result.ev)
        ELSE LET key == Call(this.firstKeyFn, result.value, 0)
                 ev == result.ev \o <<CallEv(this.firstKeyFn)>>
             IN  IF MapHas(this.secondMap, key)
                 THEN Yield(Combine(this.joinFn, result.value,
                                    MapGet(this.secondMap, key)),
                            this1, ev \o <<CallEv(this.joinFn)>>)
                 ELSE After(ev, LazyGroupJoinIterator_next(this1))

(***************************************************************************)
(* LazyJoinIterator                                                        *)
(***************************************************************************)
LazyJoinIterator(firstIterable, secondIterable, firstKeyFn, secondKeyFn, joinFn) ==
    LET it == Symbol_iterator(firstIterable)
        Built(second) ==
            IF it.err # NoError THEN it
            ELSE IF second.err # NoError THEN Fail(second.err, it.ev \o second.ev)
            ELSE Ok([cls |-> "LazyJoinIterator", firstIterator |-> it.cur,
                     secondMap |-> second.map, firstKeyFn |-> firstKeyFn,
                     joinFn |-> joinFn, next |-> "next"], it.ev \o second.ev)
    IN  Built(toMap(secondIterable, secondKeyFn, NoFn))

JoinMatches(secondElement) == Truthy(secondElement)

RECURSIVE LazyJoinIterator_next(_)
LazyJoinIterator_next(this) ==
    LET result == next(this.firstIterator)
        this1 == [this EXCEPT !.firstIterator = result.cur]
    IN  IF result.done THEN done(this1, result.ev)
        ELSE LET key == Call(this.firstKeyFn, result.value, 0)
                 secondElement == MapGet(this.secondMap, key)
                 ev == result.ev \o <<CallEv(this.firstKeyFn)>>
             IN  IF JoinMatches(secondElement)
                 THEN Yield(Combine(this.joinFn, result.value, secondElement),
                            this1, ev \o <<CallEv(this.joinFn)>>)
                 ELSE After(ev, LazyJoinIterator_next(this1))

(***************************************************************************)
(* Text of a key ('' + key) as the sequence of its characters' collation   *)
(* ranks: the digits 0..9 rank 0..9, the letters a..z rank 10..35.         *)
(***************************************************************************)
RECURSIVE Digits(_)
Digits(n) == IF n < 10 THEN <<n>> ELSE Append(Digits(n \div 10), n % 10)

UndefinedText == <<30, 23, 13, 14, 15, 18, 23, 14, 13>>

ToText(key) == IF key = Undefined THEN UndefinedText ELSE Digits(key)

RECURSIVE localeCompare(_, _)
localeCompare(s, t) ==
    IF s = <<>> THEN (IF t = <<>> THEN 0 ELSE -1)
    ELSE IF t = <<>> THEN 1
    ELSE IF Head(s) < Head(t) THEN -1
    ELSE IF Head(s) > Head(t) THEN 1
    ELSE localeCompare(Tail(s), Tail(t))

defaultComparer(a, b) == localeCompare(ToText(a), ToText(b))

numericComparer(a, b) == a - b

(***************************************************************************)
(* comparerFactory(keyFn, reverse, compareFn)(a, b).  The key function of  *)
(* an ordering is a function value, so that it ranges over every mapping   *)
(* of elements to keys.                                                    *)
(***************************************************************************)
Compare(compareFn, ka, kb) ==
    IF compareFn = NoFn THEN defaultComparer(ka, kb) ELSE numericComparer(ka, kb)

comparerFactory(keyFn, reverse, compareFn, a, b) ==
    IF reverse THEN Compare(compareFn, keyFn[b], keyFn[a])
    ELSE Compare(compareFn, keyFn[a], keyFn[b])

(***************************************************************************)
(* Array.prototype.sort with a comparer: undefined elements go last        *)
(* without being compared, the others are sorted stably.  n counts the     *)
(* comparisons made by this (insertion) sort.                              *)
(***************************************************************************)
RECURSIVE SortInsert(_, _, _, _, _, _)
SortInsert(sorted, j, x, keyFn, reverse, compareFn) ==
    IF j = 0 THEN [arr |-> <<x>> \o sorted, n |-> 0]
    ELSE IF comparerFactory(keyFn, reverse, compareFn, sorted[j], x) > 0
    THEN LET r == SortInsert(sorted, j - 1, x, keyFn, reverse, compareFn)
         IN  [arr |-> r.arr, n |-> r.n + 1]
    ELSE [arr |-> SubSeq(sorted, 1, j) \o <<x>> \o SubSeq(sorted, j + 1, Len(sorted)),
          n |-> 1]

RECURSIVE SortDefined(_, _, _, _, _)
SortDefined(sorted, rest, keyFn, reverse, compareFn) ==
    IF rest = <<>> THEN [arr |-> sorted, n |-> 0]
    ELSE LET ins == SortInsert(sorted, Len(sorted), Head(rest), keyFn, reverse, compareFn)
             r == SortDefined(ins.arr, Tail(rest), keyFn, reverse, compareFn)
         IN  [arr |-> r.arr, n |-> ins.n + r.n]

IsDefined(x) == x # Undefined

IsUndefined(x) == x = Undefined

sort(arr, keyFn, reverse, compareFn) ==
    LET r == SortDefined(<<>>, SelectSeq(arr, IsDefined), keyFn, reverse, compareFn)
    IN  [arr |-> r.arr \o SelectSeq(arr, IsUndefined), n |-> r.n]

RECURSIVE SortEvs(_, _)
SortEvs(n, compareFn) ==
    IF n = 0 THEN <<>>
    ELSE <<CallEv("keyFn"), CallEv("keyFn")>> \o CallEvs(Given(compareFn))
         \o SortEvs(n - 1, compareFn)

\* a descending ordering made by reversing the ascending one.
lazyOrderByReversing(iterable, keyFn, compareFn, decending) ==
    LET Backward(vals) == [i \in 1..Len(vals) |-> vals[Len(vals) + 1 - i]]
        Sorted(arr, sorted) ==
            Ok(ArrayIterator(IF decending THEN Backward(sorted.arr) ELSE sorted.arr, ""),
               arr.ev \o SortEvs(sorted.n, compareFn))
        Built(arr) ==
            IF arr.err # NoError THEN Fail(arr.err, arr.ev)
            ELSE Sorted(arr, sort(arr.vals, keyFn, FALSE, compareFn))
    IN  Built(toArray(iterable))

lazyOrderBy(iterable, keyFn, compareFn, decending) ==
    LET Sorted(arr, sorted) ==
            Ok(ArrayIterator(sorted.arr, ""), arr.ev \o SortEvs(sorted.n, compareFn))
        Built(arr) ==
            IF arr.err # NoError THEN Fail(arr.err, arr.ev)
            ELSE Sorted(arr, sort(arr.vals, keyFn, decending, compareFn))
    IN  Built(toArray(iterable))

(***************************************************************************)
(* LazyReverseIterator                                                     *)
(***************************************************************************)
LazyReverseIterator(iterable) ==
    LET Built(arr) ==
            IF arr.err # NoError THEN Fail(arr.err, arr.ev)
            ELSE Ok([cls |-> "LazyReverseIterator", arr |-> arr.vals,
                     index |-> Len(arr.vals) - 1, next |-> "next"], arr.ev)
    IN  Built(toArray(iterable))

\* reverse that walks its array from the front.
LazyReverseIterator_nextForward(this) ==
    IF this.index < 0 THEN done(this, <<>>)
    ELSE Yield(this.arr[Len(this.arr) - this.index], [this EXCEPT !.index = @ - 1],
               <<>>)

LazyReverseIterator_next(this) ==
    IF this.index < 0 THEN done(this, <<>>)
    ELSE Yield(this.arr[this.index + 1], [this EXCEPT !.index = @ - 1], <<>>)

(***************************************************************************)
(* LazySelectIterator                                                      *)
(***************************************************************************)
LazySelectIterator(iterable, selector) ==
    LET it == Symbol_iterator(iterable)
    IN  IF it.err # NoError THEN it
        ELSE Ok([cls |-> "LazySelectIterator", iterator |-> it.cur, index |-> 0,
                 selector |-> selector, next |-> "next"], it.ev)

LazySelectIterator_next(this) ==
    LET result == next(this.iterator)
        this1 == [this EXCEPT !.iterator = result.cur]
    IN  IF result.done THEN done(this1, result.ev)
        ELSE Yield(Call(this.selector, result.value, this.index),
                   [this1 EXCEPT !.index = @ + 1],
                   result.ev \o <<CallEv(this.selector)>>)

(***************************************************************************)
(* LazySelectManyIterator: internalIterator is NoCursor when undefined.    *)
(***************************************************************************)
LazySelectManyIterator(iterable, selector) ==
    LET it == Symbol_iterator(iterable)
    IN  IF it.err # NoError THEN it
        ELSE Ok([cls |-> "LazySelectManyIterator", iterator |-> it.cur,
                 internalIterator |-> NoCursor, index |-> 0, selector |-> selector,
                 next |-> "next"], it.ev)

RECURSIVE LazySelectManyIterator_next(_)
LazySelectManyIterator_next(this) ==
    IF this.internalIterator = NoCursor
    THEN LET result == next(this.iterator)
             this1 == [this EXCEPT !.iterator = result.cur]
         IN  IF result.done THEN done(this1, result.ev)
             ELSE After(result.ev \o <<CallEv(this.selector)>>,
                        LazySelectManyIterator_next(
                            [this1 EXCEPT !.index = @ + 1,
                                          !.internalIterator = ArrayIterator(
                                              Call(this.selector, result.value,
                                                   this.index), "")]))
    ELSE LET internalResult == next(this.internalIterator)
         IN  IF internalResult.done
             THEN LazySelectManyIterator_next([this EXCEPT !.internalIterator = NoCursor])
             ELSE Yield(internalResult.value,
                        [this EXCEPT !.internalIterator = internalResult.cur], <<>>)

(***************************************************************************)
(* LazySkipIterator                                                        *)
(***************************************************************************)
LazySkipIterator(iterable, count) ==
    LET it == Symbol_iterator(iterable)
    IN  IF it.err # NoError THEN it
        ELSE Ok([cls |-> "LazySkipIterator", iterator |-> it.cur, skipped |-> 0,
                 count |-> count, next |-> "next"], it.ev)

RECURSIVE LazySkipIterator_next(_)
LazySkipIterator_next(this) ==
    LET result == next(this.iterator)
        this1 == [this EXCEPT !.iterator = result.cur]
    IN  IF result.done THEN done(this1, result.ev)
        ELSE IF this.skipped < this.count
        THEN After(result.ev, LazySkipIterator_next([this1 EXCEPT !.skipped = @ + 1]))
        ELSE Yield(result.value, this1, result.ev)

(***************************************************************************)
(* Queue: a buffer (0-based in the source, 1-based here) and the index     *)
(* front of its head.  maxLeftoverCount is 10000 in the source; the model  *)
(* scales it down so that runs reach it.                                   *)
(***************************************************************************)
maxLeftoverCount == 2

Queue == [buffer |-> <<>>, front |-> 0]

length(q) == Len(q.buffer) - q.front

enqueue(q, element) == [q EXCEPT !.buffer = Append(@, element)]

\* dequeue that hands out the front element and leaves it in the queue.
dequeueKeeping(q) ==
    IF length(q) = 0
    THEN [q |-> q, element |-> Undefined, err |-> "Cannot dequeue an empty queue"]
    ELSE [q |-> q, element |-> q.buffer[q.front + 1], err |-> NoError]

dequeue(q) ==
    LET element == q.buffer[q.front + 1]
        front == q.front + 1
    IN  IF length(q) = 0
        THEN [q |-> q, element |-> Undefined, err |-> "Cannot dequeue an empty queue"]
        ELSE IF front * 2 >= Len(q.buffer)
        THEN [q |-> [buffer |-> SubSeq(q.buffer, front + 1, Len(q.buffer)), front |-> 0],
              element |-> element, err |-> NoError]
        ELSE IF front >= maxLeftoverCount
        THEN [q |-> [buffer |-> [q.buffer EXCEPT ![front + 1] = Undefined],
                     front |-> front],
              element |-> element, err |-> NoError]
        ELSE [q |-> [q EXCEPT !.front = front], element |-> element, err |-> NoError]

(***************************************************************************)
(* LazySkipLastIterator                                                    *)
(***************************************************************************)
LazySkipLastIterator(iterable, count) ==
    LET it == Symbol_iterator(iterable)
    IN  IF it.err # NoError THEN it
        ELSE Ok([cls |-> "LazySkipLastIterator", iterator |-> it.cur, queue |-> Queue,
                 count |-> count, next |-> "next"], it.ev)

RECURSIVE LazySkipLastIterator_next(_)
LazySkipLastIterator_next(this) ==
    LET result == next(this.iterator)
        this1 == [this EXCEPT !.iterator = result.cur]
    IN  IF result.done THEN done(this1, result.ev)
        ELSE LET queue == enqueue(this.queue, result.value)
                 d == dequeue(queue)
             IN  IF length(queue) > this.count
                 THEN Yield(d.element, [this1 EXCEPT !.queue = d.q], result.ev)
                 ELSE After(result.ev,
                            LazySkipLastIterator_next([this1 EXCEPT !.queue = queue]))

(***************************************************************************)
(* LazySkipWhile                                                           *)
(***************************************************************************)
LazySkipWhile(iterable, predicate) ==
    LET it == Symbol_iterator(iterable)
    IN  IF it.err # NoError THEN it
        ELSE Ok([cls |-> "LazySkipWhile", iterator |-> it.cur, index |-> 0,
                 yielding |-> FALSE, predicate |-> predicate, next |-> "next"], it.ev)

\* A next() that never latches _yielding: it tests every element.
RECURSIVE LazySkipWhile_nextRechecking(_)
LazySkipWhile_nextRechecking(this) ==
    LET result == next(this.iterator)
        this1 == [this EXCEPT !.iterator = result.cur, !.index = @ + 1]
        ev == result.ev \o <<CallEv(this.predicate)>>
    IN  IF result.done THEN done([this EXCEPT !.iterator = result.cur], result.ev)
        ELSE IF ~Call(this.predicate, result.value, this.index)
        THEN Yield(result.value, this1, ev)
        ELSE After(ev, LazySkipWhile_nextRechecking(this1))

RECURSIVE LazySkipWhile_next(_)
LazySkipWhile_next(this) ==
    LET result == next(this.iterator)
        this1 == [this EXCEPT !.iterator = result.cur]
    IN  IF result.done THEN done(this1, result.ev)
        ELSE IF this.yielding THEN Yield(result.value, this1, result.ev)
        ELSE LET yielding == ~Call(this.predicate, result.value, this.index)
                 this2 == [this1 EXCEPT !.yielding = yielding, !.index = @ + 1]
                 ev == result.ev \o <<CallEv(this.predicate)>>
             IN  IF yielding THEN Yield(result.value, this2, ev)
                 ELSE After(ev, LazySkipWhile_next(this2))

(***************************************************************************)
(* LazyTakeIterator                                                        *)
(***************************************************************************)
LazyTakeIterator(iterable, count) ==
    LET it == Symbol_iterator(iterable)
    IN  IF it.err # NoError THEN it
        ELSE Ok([cls |-> "LazyTakeIterator", iterator |-> it.cur, taken |-> 0,
                 count |-> count, next |-> "next"], it.ev)

\* A next() whose count test is off by one.
LazyTakeIterator_nextOneMore(this) ==
    IF this.taken > this.count THEN done(this, <<>>)
    ELSE LET result == next(this.iterator)
             this1 == [this EXCEPT !.iterator = result.cur, !.taken = @ + 1]
         IN  IF result.done THEN done(this1, result.ev)
             ELSE Yield(result.value, this1, result.ev)

\* A next() that pulls its upstream before it tests the count.
LazyTakeIterator_nextPullFirst(this) ==
    LET result == next(this.iterator)
        this1 == [this EXCEPT !.iterator = result.cur, !.taken = @ + 1]
    IN  IF this.taken >= this.count \/ result.done THEN done(this1, result.ev)
        ELSE Yield(result.value, this1, result.ev)

LazyTakeIterator_next(this) ==
    IF this.taken >= this.count THEN done(this, <<>>)
    ELSE LET result == next(this.iterator)
             this1 == [this EXCEPT !.iterator = result.cur, !.taken = @ + 1]
         IN  IF result.done THEN done(this1, result.ev)
             ELSE Yield(result.value, this1, result.ev)

(***************************************************************************)
(* LazyTakeLastIterator                                                    *)
(***************************************************************************)
RECURSIVE LazyTakeLastIterator_fill(_, _, _)
LazyTakeLastIterator_fill(queue, vals, count) ==
    IF vals = <<>> THEN queue
    ELSE IF length(queue) < count
    THEN LazyTakeLastIterator_fill(enqueue(queue, Head(vals)), Tail(vals), count)
    ELSE LazyTakeLastIterator_fill(enqueue(dequeue(queue).q, Head(vals)), Tail(vals),
                                   count)

LazyTakeLastIterator(iterable, count) ==
    LET Built(src) ==
            IF src.err # NoError THEN Fail(src.err, src.ev)
            ELSE Ok([cls |-> "LazyTakeLastIterator",
                     queue |-> LazyTakeLastIterator_fill(Queue, src.vals, count),
                     next |-> "next"], src.ev)
    IN  IF count > 0 THEN Built(ForOf(iterable, <<>>))
        ELSE Ok([cls |-> "LazyTakeLastIterator", queue |-> Queue, next |-> "next"], <<>>)

LazyTakeLastIterator_next(this) ==
    IF length(this.queue) = 0 THEN done(this, <<>>)
    ELSE LET d == dequeue(this.queue)
         IN  Yield(d.element, [this EXCEPT !.queue = d.q], <<>>)

(***************************************************************************)
(* LazyTakeWhileIterator                                                   *)
(***************************************************************************)
LazyTakeWhileIterator(iterable, predicate) ==
    LET it == Symbol_iterator(iterable)
    IN  IF it.err # NoError THEN it
        ELSE Ok([cls |-> "LazyTakeWhileIterator", iterator |-> it.cur, index |-> 0,
                 predicate |-> predicate, next |-> "next"], it.ev)

\* A next() that reports exhaustion at a failing element without done().
LazyTakeWhileIterator_nextResuming(this) ==
    LET result == next(this.iterator)
        this1 == [this EXCEPT !.iterator = result.cur]
    IN  IF result.done THEN done(this1, result.ev)
        ELSE IF ~Call(this.predicate, result.value, this.index)
        THEN doneNext(this1, result.ev \o <<CallEv(this.predicate)>>)
        ELSE Yield(result.value, [this1 EXCEPT !.index = @ + 1],
                   result.ev \o <<CallEv(this.predicate)>>)

LazyTakeWhileIterator_next(this) ==
    LET result == next(this.iterator)
        this1 == [this EXCEPT !.iterator = result.cur]
    IN  IF result.done THEN done(this1, result.ev)
        ELSE IF ~Call(this.predicate, result.value, this.index)
        THEN done(this1, result.ev \o <<CallEv(this.predicate)>>)
        ELSE Yield(result.value, [this1 EXCEPT !.index = @ + 1],
                   result.ev \o <<CallEv(this.predicate)>>)

(***************************************************************************)
(* LazyUnionIterator                                                       *)
(***************************************************************************)
LazyUnionIterator(firstIterable, secondIterable, compareOn) ==
    LET first == Symbol_iterator(firstIterable)
        second == Symbol_iterator(secondIterable)
    IN  IF first.err # NoError THEN first
        ELSE IF second.err # NoError THEN Fail(second.err, first.ev \o second.ev)
        ELSE Ok([cls |-> "LazyUnionIterator", firstIterator |-> first.cur,
                 secondIterator |-> second.cur, set |-> {}, onSecond |-> FALSE,
                 compareOn |-> compareOn, next |-> "next"], first.ev \o second.ev)

\* union that forgets the keys of the first input when it turns to the second.
RECURSIVE LazyUnionIterator_nextSeparate(_)
LazyUnionIterator_nextSeparate(this) ==
    LET result == IF this.onSecond THEN next(this.secondIterator)
                  ELSE next(this.firstIterator)
        this1 == IF this.onSecond THEN [this EXCEPT !.secondIterator = result.cur]
                 ELSE [this EXCEPT !.firstIterator = result.cur]
    IN  IF result.done
        THEN IF this.onSecond THEN done(this1, result.ev)
             ELSE After(result.ev,
                        LazyUnionIterator_nextSeparate(
                            [this1 EXCEPT !.onSecond = TRUE, !.set = {}]))
        ELSE LET key == KeyOf(this.compareOn, result.value)
                 ev == result.ev \o CallEvs(Given(this.compareOn))
             IN  IF key \notin this.set
                 THEN Yield(result.value, [this1 EXCEPT !.set = @ \cup {key}], ev)
                 ELSE After(ev, LazyUnionIterator_nextSeparate(this1))

RECURSIVE LazyUnionIterator_next(_)
LazyUnionIterator_next(this) ==
    LET result == IF this.onSecond THEN next(this.secondIterator)
                  ELSE next(this.firstIterator)
        this1 == IF this.onSecond THEN [this EXCEPT !.secondIterator = result.cur]
                 ELSE [this EXCEPT !.firstIterator = result.cur]
    IN  IF result.done
        THEN IF this.onSecond THEN done(this1, result.ev)
             ELSE After(result.ev,
                        LazyUnionIterator_next([this1 EXCEPT !.onSecond = TRUE]))
        ELSE LET key == KeyOf(this.compareOn, result.value)
                 ev == result.ev \o CallEvs(Given(this.compareOn))
             IN  IF key \notin this.set
                 THEN Yield(result.value, [this1 EXCEPT !.set = @ \cup {key}], ev)
                 ELSE After(ev, LazyUnionIterator_next(this1))

(***************************************************************************)
(* LazyWhereIterator                                                       *)
(***************************************************************************)
LazyWhereIterator(iterable, predicate) ==
    LET it == Symbol_iterator(iterable)
    IN  IF it.err # NoError THEN it
        ELSE Ok([cls |-> "LazyWhereIterator", iterator |-> it.cur, index |-> 0,
                 predicate |-> predicate, next |-> "next"], it.ev)

RECURSIVE LazyWhereIterator_next(_)
LazyWhereIterator_next(this) ==
    LET result == next(this.iterator)
        this1 == [this EXCEPT !.iterator = result.cur, !.index = @ + 1]
        ev == result.ev \o <<CallEv(this.predicate)>>
    IN  IF result.done THEN done([this EXCEPT !.iterator = result.cur], result.ev)
        ELSE IF Call(this.predicate, result.value, this.index)
        THEN Yield(result.value, this1, ev)
        ELSE After(ev, LazyWhereIterator_next(this1))

(***************************************************************************)
(* LazyZipIterator                                                         *)
(***************************************************************************)
LazyZipIterator(firstIterable, secondIterable, selector) ==
    LET first == Symbol_iterator(firstIterable)
        second == Symbol_iterator(secondIterable)
    IN  IF first.err # NoError THEN first
        ELSE IF second.err # NoError THEN Fail(second.err, first.ev \o second.ev)
        ELSE Ok([cls |-> "LazyZipIterator", firstIterator |-> first.cur,
                 secondIterator |-> second.cur, selector |-> selector,
                 next |-> "next"], first.ev \o second.ev)

\* A next() that hands the selector its arguments in the wrong order.
LazyZipIterator_nextSwapped(this) ==
    LET firstResult == next(this.firstIterator)
        this1 == [this EXCEPT !.firstIterator = firstResult.cur]
        secondResult == next(this.secondIterator)
        this2 == [this1 EXCEPT !.secondIterator = secondResult.cur]
    IN  IF firstResult.done THEN done(this1, firstResult.ev)
        ELSE IF secondResult.done THEN done(this2, firstResult.ev \o secondResult.ev)
        ELSE Yield(Combine(this.selector, secondResult.value, firstResult.value),
                   this2,
                   firstResult.ev \o secondResult.ev \o CallEvs(Given(this.selector)))

LazyZipIterator_next(this) ==
    LET firstResult == next(this.firstIterator)
        this1 == [this EXCEPT !.firstIterator = firstResult.cur]
        secondResult == next(this.secondIterator)
        this2 == [this1 EXCEPT !.secondIterator = secondResult.cur]
    IN  IF firstResult.done THEN done(this1, firstResult.ev)
        ELSE IF secondResult.done THEN done(this2, firstResult.ev \o secondResult.ev)
        ELSE Yield(Combine(this.selector, firstResult.value, secondResult.value),
                   this2,
                   firstResult.ev \o secondResult.ev \o CallEvs(Given(this.selector)))

(***************************************************************************)
(* The Lazy classes: a Sequence holds its inputs and callbacks, nothing    *)
(* else.                                                                   *)
(***************************************************************************)
LazyRange(start, end) == [op |-> "LazyRange", start |-> start, end |-> end]

LazyRepeat(element, count) == [op |-> "LazyRepeat", element |-> element, count |-> count]

LazyIterator(iterable, name) == [op |-> "LazyIterator", iterable |-> iterable, name |-> name]

LazyAppendPrepend(iterable, element, atStart) ==
    [op |-> "LazyAppendPrepend", iterable |-> iterable, element |-> element,
     atStart |-> atStart]

LazyBatchIn(iterable, batchSize, includeIncomplete) ==
    [op |-> "LazyBatchIn", iterable |-> iterable, batchSize |-> batchSize,
     includeIncomplete |-> includeIncomplete]

LazyConcat(iterables) == [op |-> "LazyConcat", iterables |-> iterables]

LazyDefaultIfEmpty(iterable, defaultValue) ==
    [op |-> "LazyDefaultIfEmpty", iterable |-> iterable, defaultValue |-> defaultValue]

LazyDistinct(iterable, compareOn) ==
    [op |-> "LazyDistinct", iterable |-> iterable, compareOn |-> compareOn]

LazyExcept(firstIterable, secondIterable, compareOn) ==
    [op |-> "LazyExcept", iterable |-> firstIterable, secondIterable |-> secondIterable,
     compareOn |-> compareOn]

LazyGroupBy(iterable, keyFn, elementSelector, resultSelector) ==
    [op |-> "LazyGroupBy", iterable |-> iterable, keyFn |-> keyFn,
     elementSelector |-> elementSelector, resultSelector |-> resultSelector]

LazyGroupJoin(firstIterable, secondIterable, firstKeyFn, secondKeyFn, joinFn) ==
    [op |-> "LazyGroupJoin", iterable |-> firstIterable,
     secondIterable |-> secondIterable, firstKeyFn |-> firstKeyFn,
     secondKeyFn |-> secondKeyFn, joinFn |-> joinFn]

LazyIntersect(firstIterable, secondIterable, compareOn) ==
    [op |-> "LazyIntersect", iterable |-> firstIterable,
     secondIterable |-> secondIterable, compareOn |-> compareOn]

LazyJoin(firstIterable, secondIterable, firstKeyFn, secondKeyFn, joinFn) ==
    [op |-> "LazyJoin", iterable |-> firstIterable, secondIterable |-> secondIterable,
     firstKeyFn |-> firstKeyFn, secondKeyFn |-> secondKeyFn, joinFn |-> joinFn]

LazyOrderBy(iterable, keyFn, compareFn, decending) ==
    [op |-> "LazyOrderBy", iterable |-> iterable, keyFn |-> keyFn,
     compareFn |-> compareFn, decending |-> decending]

LazyReverse(iterable) == [op |-> "LazyReverse", iterable |-> iterable]

LazySelect(iterable, selector) ==
    [op |-> "LazySelect", iterable |-> iterable, selector |-> selector]

LazySelectMany(iterable, selector) ==
    [op |-> "LazySelectMany", iterable |-> iterable, selector |-> selector]

LazySkip(iterable, count) == [op |-> "LazySkip", iterable |-> iterable, count |-> count]

LazySkipLast(iterable, count) ==
    [op |-> "LazySkipLast", iterable |-> iterable, count |-> count]

LazySkipWhileOf(iterable, predicate) ==
    [op |-> "LazySkipWhile", iterable |-> iterable, predicate |-> predicate]

LazyTake(iterable, count) == [op |-> "LazyTake", iterable |-> iterable, count |-> count]

LazyTakeLast(iterable, count) ==
    [op |-> "LazyTakeLast", iterable |-> iterable, count |-> count]

LazyTakeWhile(iterable, predicate) ==
    [op |-> "LazyTakeWhile", iterable |-> iterable, predicate |-> predicate]

LazyUnion(firstIterable, secondIterable, compareOn) ==
    [op |-> "LazyUnion", iterable |-> firstIterable, secondIterable |-> secondIterable,
     compareOn |-> compareOn]

LazyWhere(iterable, predicate) ==
    [op |-> "LazyWhere", iterable |-> iterable, predicate |-> predicate]

LazyZip(firstIterable, secondIterable, selector) ==
    [op |-> "LazyZip", iterable |-> firstIterable, secondIterable |-> secondIterable,
     selector |-> selector]

(***************************************************************************)
(* iterable[Symbol.iterator](): each call makes a new iterator object.     *)
(***************************************************************************)
Symbol_iterator(s) ==
    CASE s.op = "LazyIterator" -> Ok(ArrayIterator(s.iterable, s.name), <<>>)
      [] s.op = "LazyRange" -> LazyRangeIterator(s.start, s.end)
      [] s.op = "LazyRepeat" -> LazyRepeatIterator(s.element, s.count)
      [] s.op = "LazyAppendPrepend" ->
            LazyAppendPrependIterator(s.iterable, s.element, s.atStart)
      [] s.op = "LazyBatchIn" ->
            LazyBatchInIterator(s.iterable, s.batchSize, s.includeIncomplete)
      [] s.op = "LazyConcat" -> LazyConcatIterator(s.iterables)
      [] s.op = "LazyDefaultIfEmpty" ->
            LazyDefaultIfEmptyIterator(s.iterable, s.defaultValue)
      [] s.op = "LazyDistinct" -> LazyDistinctIterator(s.iterable, s.compareOn)
      [] s.op = "LazyExcept" ->
            LazyExceptIterator(s.iterable, s.secondIterable, s.compareOn)
      [] s.op = "LazyGroupBy" ->
            LazyGroupByIterator(s.iterable, s.keyFn, s.elementSelector, s.resultSelector)
      [] s.op = "LazyGroupJoin" ->
            LazyGroupJoinIterator(s.iterable, s.secondIterable, s.firstKeyFn,
                                  s.secondKeyFn, s.joinFn)
      [] s.op = "LazyIntersect" ->
            LazyIntersectIterator(s.iterable, s.secondIterable, s.compareOn)
      [] s.op = "LazyJoin" ->
            LazyJoinIterator(s.iterable, s.secondIterable, s.firstKeyFn,
                             s.secondKeyFn, s.joinFn)
      [] s.op = "LazyOrderBy" ->
            lazyOrderBy(s.iterable, s.keyFn, s.compareFn, s.decending)
      [] s.op = "LazyReverse" -> LazyReverseIterator(s.iterable)
      [] s.op = "LazySelect" -> LazySelectIterator(s.iterable, s.selector)
      [] s.op = "LazySelectMany" -> LazySelectManyIterator(s.iterable, s.selector)
      [] s.op = "LazySkip" -> LazySkipIterator(s.iterable, s.count)
      [] s.op = "LazySkipLast" -> LazySkipLastIterator(s.iterable, s.count)
      [] s.op = "LazySkipWhile" -> LazySkipWhile(s.iterable, s.predicate)
      [] s.op = "LazyTake" -> LazyTakeIterator(s.iterable, s.count)
      [] s.op = "LazyTakeLast" -> LazyTakeLastIterator(s.iterable, s.count)
      [] s.op = "LazyTakeWhile" -> LazyTakeWhileIterator(s.iterable, s.predicate)
      [] s.op = "LazyUnion" ->
            LazyUnionIterator(s.iterable, s.secondIterable, s.compareOn)
      [] s.op = "LazyWhere" -> LazyWhereIterator(s.iterable, s.predicate)
      [] s.op = "LazyZip" -> LazyZipIterator(s.iterable, s.secondIterable, s.selector)

(***************************************************************************)
(* iterator.next(): the object's own next once done() has replaced it,     *)
(* the class's next otherwise.                                             *)
(***************************************************************************)
next(it) ==
    IF it.next = "doneNext" THEN doneNext(it, <<>>)
    ELSE CASE it.cls = "ArrayIterator" -> ArrayIterator_next(it)
           [] it.cls = "LazyRangeIterator" -> LazyRangeIterator_next(it)
           [] it.cls = "LazyRepeatIterator" -> LazyRepeatIterator_next(it)
           [] it.cls = "LazyAppendPrependIterator" -> LazyAppendPrependIterator_next(it)
           [] it.cls = "LazyBatchInIterator" -> LazyBatchInIterator_next(it)
           [] it.cls = "LazyConcatIterator" -> LazyConcatIterator_next(it)
           [] it.cls = "LazyDefaultIfEmptyIterator" -> LazyDefaultIfEmptyIterator_next(it)
           [] it.cls = "LazyDistinctIterator" -> LazyDistinctIterator_next(it)
           [] it.cls = "LazyExceptIterator" -> LazyExceptIterator_next(it)
           [] it.cls = "LazyGroupByIterator" -> LazyGroupByIterator_next(it)
           [] it.cls = "LazyGroupJoinIterator" -> LazyGroupJoinIterator_next(it)
           [] it.cls = "LazyIntersectIterator" -> LazyIntersectIterator_next(it)
           [] it.cls = "LazyJoinIterator" -> LazyJoinIterator_next(it)
           [] it.cls = "LazyReverseIterator" -> LazyReverseIterator_next(it)
           [] it.cls = "LazySelectIterator" -> LazySelectIterator_next(it)
           [] it.cls = "LazySelectManyIterator" -> LazySelectManyIterator_next(it)
           [] it.cls = "LazySkipIterator" -> LazySkipIterator_next(it)
           [] it.cls = "LazySkipLastIterator" -> LazySkipLastIterator_next(it)
           [] it.cls = "LazySkipWhile" -> LazySkipWhile_next(it)
           [] it.cls = "LazyTakeIterator" -> LazyTakeIterator_next(it)
           [] it.cls = "LazyTakeLastIterator" -> LazyTakeLastIterator_next(it)
           [] it.cls = "LazyTakeWhileIterator" -> LazyTakeWhileIterator_next(it)
           [] it.cls = "LazyUnionIterator" -> LazyUnionIterator_next(it)
           [] it.cls = "LazyWhereIterator" -> LazyWhereIterator_next(it)
           [] it.cls = "LazyZipIterator" -> LazyZipIterator_next(it)

(***************************************************************************)
(* The chains the caller builds.  The primary source is the array A, a     *)
(* secondary input is made from an array B.  An operand is a source or a   *)
(* materializing operator over a source; a chain is an operand or one      *)
(* operator over operands.                                                 *)
(***************************************************************************)
IdentityKey == [x \in Elems |-> x]

Counts == {0, 1}

Materialized(base) ==
    {LazyReverse(base), LazyTakeLast(base, 1),
     LazyOrderBy(base, IdentityKey, NoFn, FALSE),
     LazyGroupBy(base, "half", NoFn, NoFn)}

IsOperand(s) ==
    \/ s.op = "LazyIterator"
    \/ /\ s.op \in {"LazyReverse", "LazyTakeLast", "LazyOrderBy", "LazyGroupBy"}
       /\ s.iterable.op = "LazyIterator"
       /\ s \in Materialized(s.iterable)

YieldsNumbers(s) == s.op # "LazyGroupBy"

Seconds ==
    UNION {{LazyIterator(b, "B")} \cup Materialized(LazyIterator(b, "B")) :
           b \in SeqsUpTo(Elems, MaxLenB)}

Positional(this) ==
    {LazyAppendPrepend(this, 2, atStart) : atStart \in BOOLEAN}
    \cup {LazyBatchIn(this, 2, includeIncomplete) : includeIncomplete \in BOOLEAN}
    \cup {LazyConcat(<<this, second>>) : second \in Seconds}
    \cup {LazyDefaultIfEmpty(this, 2), LazyReverse(this)}
    \cup {LazySkip(this, count) : count \in Counts}
    \cup {LazySkipLast(this, count) : count \in Counts}
    \cup {LazyTake(this, count) : count \in Counts}
    \cup {LazyTakeLast(this, count) : count \in Counts}
    \cup {LazyZip(this, second, NoFn) : second \in Seconds}

Valued(this) ==
    LET seconds == {second \in Seconds : YieldsNumbers(second)}
    IN  {LazyDistinct(this, compareOn) : compareOn \in {NoFn, "half"}}
        \cup {LazyExcept(this, second, NoFn) : second \in seconds}
        \cup {LazyGroupBy(this, "half", NoFn, NoFn)}
        \cup {LazyGroupJoin(this, second, "identity", "identity", "pair") :
              second \in seconds}
        \cup {LazyIntersect(this, second, NoFn) : second \in seconds}
        \cup {LazyJoin(this, second, "identity", "identity", "pair") :
              second \in seconds}
        \cup {LazyOrderBy(this, IdentityKey, compareFn, decending) :
              compareFn \in {NoFn, "numericComparer"}, decending \in BOOLEAN}
        \cup {LazySelect(this, "succ"), LazySelectMany(this, "downFrom"),
              LazySkipWhileOf(this, "isPositive"), LazyTakeWhile(this, "isPositive"),
              LazyWhere(this, "isEven")}
        \cup {LazyUnion(this, second, NoFn) : second \in seconds}
        \cup {LazyZip(this, second, "sum") : second \in seconds}

Operators(this) ==
    Positional(this) \cup (IF YieldsNumbers(this) THEN Valued(this) ELSE {})

(***************************************************************************)
(* new LazyX(...): the constructors of the Lazy classes only store their   *)
(* arguments.  ev is what the construction pulls and calls.                *)
(***************************************************************************)
NewDriving(s) == [seq |-> s, ev |-> toArray(s).ev]

New(s) == [seq |-> s, ev |-> <<>>]

(***************************************************************************)
(* State: the chain built so far, the cursors obtained from it (by cursor  *)
(* id), what each cursor has yielded, how often each has reported done,    *)
(* the log of pulls and callback calls, and the error raised, if any.      *)
(***************************************************************************)
CursorIds == {1, 2}

IterateEv(c) == [k |-> "iterate", n |-> c]

NextEv(c) == [k |-> "callNext", n |-> c]

Init ==
    /\ chain \in {LazyIterator(a, "A") : a \in SeqsUpTo(Elems, MaxLen)}
    /\ cursors = [c \in CursorIds |-> NoCursor]
    /\ out = [c \in CursorIds |-> <<>>]
    /\ doneCalls = [c \in CursorIds |-> 0]
    /\ log = <<>>
    /\ error = NoError

Undriven == \A c \in CursorIds : cursors[c] = NoCursor

\* The caller applies one chaining operator, giving the Sequence s.
Apply(s) ==
    /\ Undriven /\ error = NoError
    /\ chain' = New(s).seq
    /\ log' = log \o New(s).ev
    /\ UNCHANGED <<cursors, out, doneCalls, error>>

Build == IsOperand(chain) /\ \E s \in Operators(chain) : Apply(s)

\* The caller obtains cursor c: chain[Symbol.iterator]().
Iterate(c) ==
    /\ cursors[c] = NoCursor /\ error = NoError
    /\ LET Obtained(r) ==
               /\ log' = log \o <<IterateEv(c)>> \o r.ev
               /\ error' = r.err
               /\ cursors' = [cursors EXCEPT ![c] = r.cur]
       IN  Obtained(Symbol_iterator(chain))
    /\ UNCHANGED <<chain, out, doneCalls>>

StoreShared(cs, c, cur) == [d \in CursorIds |-> IF cs[d] = NoCursor THEN cs[d] ELSE cur]

Store(cs, c, cur) == [cs EXCEPT ![c] = cur]

\* The caller calls next() on cursor c.
CallNext(c) ==
    /\ cursors[c] # NoCursor
    /\ doneCalls[c] < MaxDoneCalls
    /\ LET Returned(r) ==
               /\ cursors' = Store(cursors, c, r.cur)
               /\ out' = [out EXCEPT ![c] = IF r.done THEN @ ELSE Append(@, r.value)]
               /\ doneCalls' = [doneCalls EXCEPT ![c] = IF r.done THEN @ + 1 ELSE @]
               /\ log' = log \o <<NextEv(c)>> \o r.ev
       IN  Returned(next(cursors[c]))
    /\ UNCHANGED <<chain, error>>

Next == Build \/ Iterate(1) \/ CallNext(1)

Spec == Init /\ [][Next]_vars

(***************************************************************************)
(* What the properties observe.                                            *)
(***************************************************************************)
IsPrefix(s, t) == Len(s) <= Len(t) /\ SubSeq(t, 1, Len(s)) = s

Max(a, b) == IF a >= b THEN a ELSE b

Min(a, b) == IF a <= b THEN a ELSE b

\* The array at the bottom of a chain's primary input.
RECURSIVE Source(_)
Source(s) ==
    IF s.op = "LazyIterator" THEN s.iterable
    ELSE IF s.op = "LazyConcat" THEN Source(s.iterables[1])
    ELSE Source(s.iterable)

\* The positions of the log where the source array called name is pulled.
Pulls(name) == {i \in 1..Len(log) : log[i].k = "next" /\ log[i].n = name}

\* The positions of the log where the caller calls next().
NextCalls == {i \in 1..Len(log) : log[i].k = "callNext"}

(***************************************************************************)
(* C1                                                                      *)
(***************************************************************************)
\* C1: building a chain does no work: every pull of a source and every call
\* of a callback in the log comes after the caller has obtained a cursor.
C1_BuildingDoesNoWork ==
    \A i \in 1..Len(log) :
        log[i].k \in {"next", "call"} => \E j \in 1..(i - 1) : log[j].k = "iterate"

\* A join over a reversed primary has been built and not driven.
C1_Witness ==
    /\ chain.op = "LazyJoin" /\ chain.iterable.op = "LazyReverse"
    /\ Len(Source(chain)) = MaxLen
    /\ Undriven /\ log = <<>>

(***************************************************************************)
(* C3                                                                      *)
(***************************************************************************)
Keyed == {"LazyExcept", "LazyIntersect", "LazyJoin", "LazyGroupJoin"}

\* C3: for except, intersect, join and groupJoin no pull of the primary's
\* source comes before a pull of the secondary's source, and the primary's
\* source is pulled only after the caller has called next().
C3_SecondaryBeforePrimary ==
    chain.op \in Keyed =>
        /\ \A i \in Pulls("A"), j \in Pulls("B") : j < i
        /\ \A i \in Pulls("A") : \E j \in NextCalls : j < i

(***************************************************************************)
(* C4                                                                      *)
(***************************************************************************)
NoUnexpectedIteration ==
    {"LazyAppendPrepend", "LazyBatchIn", "LazyConcat", "LazyDefaultIfEmpty",
     "LazyDistinct", "LazySelect", "LazySelectMany", "LazySkip", "LazySkipWhile",
     "LazyTake", "LazyTakeWhile", "LazyWhere", "LazyZip"}

\* C4: for the operators documented as causing no additional unexpected
\* iteration, no source is pulled before the caller's first next(), and
\* concat pulls its second input only after its first input is exhausted.
C4_CursorPullsNothing ==
    chain.op \in NoUnexpectedIteration =>
        /\ \A i \in Pulls("A") \cup Pulls("B") : \E j \in NextCalls : j < i
        /\ chain.op = "LazyConcat" =>
              \A j \in Pulls("B") :
                  Cardinality({i \in Pulls("A") : i < j}) > Len(Source(chain))

(***************************************************************************)
(* C2: two cursors of one Sequence, advanced in any interleaving.          *)
(***************************************************************************)
PlainSecond(s) ==
    CASE s.op = "LazyConcat" -> s.iterables[2].op = "LazyIterator"
      [] "secondIterable" \in DOMAIN s -> s.secondIterable.op = "LazyIterator"
      [] OTHER -> TRUE

\* The Sequences the two drives share: one operator over the source.
SharedSeqs ==
    UNION {{s \in Operators(LazyIterator(a, "A")) : PlainSecond(s)} :
           a \in SeqsUpTo(Elems, MaxLen)}

InitTwo ==
    /\ chain \in SharedSeqs
    /\ cursors = [c \in CursorIds |-> NoCursor]
    /\ out = [c \in CursorIds |-> <<>>]
    /\ doneCalls = [c \in CursorIds |-> 0]
    /\ log = <<>>
    /\ error = NoError

NextTwo == \E c \in CursorIds : Iterate(c) \/ CallNext(c)

SpecTwo == InitTwo /\ [][NextTwo]_vars

\* C2: whatever the interleaving, what a cursor has yielded is a prefix of
\* what a single undisturbed drive of the Sequence yields, and all of it
\* once the cursor is exhausted.
C2_IndependentCursors ==
    \A c \in CursorIds :
        cursors[c] # NoCursor =>
            /\ IsPrefix(out[c], toArray(chain).vals)
            /\ doneCalls[c] > 0 => out[c] = toArray(chain).vals

\* Cursor 1 of a distinct is exhausted while cursor 2 is halfway.
C2_Witness ==
    /\ chain.op = "LazyDistinct"
    /\ doneCalls[1] > 0 /\ Len(out[1]) = 2
    /\ cursors[2] # NoCursor /\ doneCalls[2] = 0 /\ Len(out[2]) = 1

(***************************************************************************)
(* C5, C6: the windows over sources long enough for the queue to reach     *)
(* maxLeftoverCount.                                                       *)
(***************************************************************************)
MaxSourceLen == 6

MaxCount == 4

WindowElems == {1, 2}

InitWindow ==
    /\ chain \in {LazyIterator(a, "A") : a \in SeqsUpTo(WindowElems, MaxSourceLen)}
    /\ cursors = [c \in CursorIds |-> NoCursor]
    /\ out = [c \in CursorIds |-> <<>>]
    /\ doneCalls = [c \in CursorIds |-> 0]
    /\ log = <<>>
    /\ error = NoError

BuildWindow ==
    /\ chain.op = "LazyIterator"
    /\ \E count \in (-1)..MaxCount :
          Apply(LazySkipLast(chain, count)) \/ Apply(LazyTakeLast(chain, count))

NextWindow == BuildWindow \/ Iterate(1) \/ CallNext(1)

SpecWindow == InitWindow /\ [][NextWindow]_vars

FirstOf(src, count) == SubSeq(src, 1, Max(Len(src) - count, 0))

LastOf(src, count) ==
    IF count <= 0 THEN <<>> ELSE SubSeq(src, Len(src) - Min(count, Len(src)) + 1, Len(src))

\* C5: skipLast(n), n >= 0, yields exactly the first max(L - n, 0) elements
\* of the source, in source order.
C5_SkipLastYieldsFirst ==
    (chain.op = "LazySkipLast" /\ chain.count >= 0 /\ cursors[1] # NoCursor) =>
        /\ IsPrefix(out[1], FirstOf(Source(chain), chain.count))
        /\ doneCalls[1] > 0 => out[1] = FirstOf(Source(chain), chain.count)

\* C6: takeLast(n) yields exactly the last min(n, L) elements of the source,
\* in source order, and nothing when n <= 0.
C6_TakeLastYieldsLast ==
    (chain.op = "LazyTakeLast" /\ cursors[1] # NoCursor) =>
        /\ IsPrefix(out[1], LastOf(Source(chain), chain.count))
        /\ doneCalls[1] > 0 => out[1] = LastOf(Source(chain), chain.count)

\* C28: the windows are bounded: between two pulls the queue of a
\* skipLast(n) cursor holds at most n elements, one more only while next()
\* has enqueued and not yet dequeued, and the queue of a takeLast(n) cursor
\* holds at most n elements after each element it takes in, whatever the
\* length of the source (n counts as 0 when negative).
C28_WindowsBounded ==
    (chain.op \in {"LazySkipLast", "LazyTakeLast"} /\ cursors[1] # NoCursor) =>
        length(cursors[1].queue) <= Max(chain.count, 0)

C28_Witness ==
    /\ chain.op = "LazySkipLast" /\ chain.count = 2
    /\ Len(Source(chain)) = MaxSourceLen /\ Len(out[1]) = 4
    /\ length(cursors[1].queue) = 2

(***************************************************************************)
(* C7, C8, C9: join and groupJoin of the source with a second array.       *)
(***************************************************************************)
MaxSecondLen == 2

KeyFns == {"identity", "half"}

BuildJoin ==
    /\ chain.op = "LazyIterator"
    /\ \E b \in SeqsUpTo(Elems, MaxSecondLen), firstKeyFn \in KeyFns, secondKeyFn \in KeyFns :
          \/ Apply(LazyJoin(chain, LazyIterator(b, "B"), firstKeyFn, secondKeyFn, "pair"))
          \/ Apply(LazyGroupJoin(chain, LazyIterator(b, "B"), firstKeyFn, secondKeyFn,
                                 "pair"))

NextJoin == BuildJoin \/ Iterate(1) \/ CallNext(1)

SpecJoin == Init /\ [][NextJoin]_vars

First == chain.iterable.iterable

Second == chain.secondIterable.iterable

FirstKey(f) == Call(chain.firstKeyFn, f, 0)

SecondKey(s) == Call(chain.secondKeyFn, s, 0)

SecondKeysUnique ==
    \A i, j \in 1..Len(Second) : SecondKey(Second[i]) = SecondKey(Second[j]) => i = j

\* The secondary elements that have the key of the primary element f, in
\* secondary order.
Matching(f) == SelectSeq(Second, LAMBDA s : SecondKey(s) = FirstKey(f))

\* In primary order, each primary element that has a match, with its first match.
RECURSIVE FirstMatches(_)
FirstMatches(first) ==
    IF first = <<>> THEN <<>>
    ELSE (IF Matching(Head(first)) = <<>> THEN <<>>
          ELSE <<<<Head(first), Head(Matching(Head(first)))>>>>)
         \o FirstMatches(Tail(first))

\* In primary order, each primary element that has a match, with all its matches.
RECURSIVE AllMatches(_)
AllMatches(first) ==
    IF first = <<>> THEN <<>>
    ELSE (IF Matching(Head(first)) = <<>> THEN <<>>
          ELSE <<<<Head(first), Matching(Head(first))>>>>)
         \o AllMatches(Tail(first))

\* In primary order, every primary element with all its matches, if any.
RECURSIVE AllMatchesOrNone(_)
AllMatchesOrNone(first) ==
    IF first = <<>> THEN <<>>
    ELSE <<<<Head(first), Matching(Head(first))>>>> \o AllMatchesOrNone(Tail(first))

C8_InnerJoin ==
    (chain.op = "LazyJoin" /\ SecondKeysUnique /\ doneCalls[1] > 0) =>
        out[1] = FirstMatches(First)

\* C9 as stated: an exhausted groupJoin has yielded one result per primary
\* element, unmatched ones with an empty collection.
C9_OnePerPrimary ==
    (chain.op = "LazyGroupJoin" /\ doneCalls[1] > 0) =>
        out[1] = AllMatchesOrNone(First)

\* C9 as amended: a groupJoin yields, in primary order, one result per
\* primary element that has a match, with all its matches in secondary
\* order; a primary element without a match is dropped.
C9_OnePerMatchedPrimary ==
    (chain.op = "LazyGroupJoin" /\ cursors[1] # NoCursor) =>
        /\ IsPrefix(out[1], AllMatches(First))
        /\ doneCalls[1] > 0 => out[1] = AllMatches(First)

\* An exhausted groupJoin with an unmatched primary element and one matched twice.
C9_Witness ==
    /\ chain.op = "LazyGroupJoin" /\ doneCalls[1] > 0
    /\ \E i \in 1..Len(First) : Matching(First[i]) = <<>>
    /\ \E i \in 1..Len(First) : Len(Matching(First[i])) = 2
    /\ Len(out[1]) = 1

(***************************************************************************)
(* C10: orderings by every key function, of arrays that may hold           *)
(* undefined elements.                                                     *)
(***************************************************************************)
MaxOrderLen == 3

\* Key functions: an element's key is five times the element, or undefined.
OrderKeyFns ==
    {[x \in Elems |-> IF x \in missing THEN Undefined ELSE 5 * x] :
     missing \in SUBSET Elems}

InitOrder ==
    /\ chain \in {LazyIterator(a, "A") :
                  a \in SeqsUpTo(Elems \cup {Undefined}, MaxOrderLen)}
    /\ cursors = [c \in CursorIds |-> NoCursor]
    /\ out = [c \in CursorIds |-> <<>>]
    /\ doneCalls = [c \in CursorIds |-> 0]
    /\ log = <<>>
    /\ error = NoError

BuildOrder ==
    /\ chain.op = "LazyIterator"
    /\ \E keyFn \in OrderKeyFns, decending \in BOOLEAN :
          Apply(LazyOrderBy(chain, keyFn, NoFn, decending))

NextOrder == BuildOrder \/ Iterate(1) \/ CallNext(1)

SpecOrder == InitOrder /\ [][NextOrder]_vars

\* The key of an element of the ordered chain; an undefined element has none.
OrderKey(x) == IF x = Undefined THEN Undefined ELSE chain.keyFn[x]

\* C10: with the default comparator, in an exhausted ordering no element
\* whose key is undefined comes before an element whose key is present, in
\* either direction, and the present keys are in text order (reversed when
\* descending).
C10_UndefinedKeysLast ==
    (chain.op = "LazyOrderBy" /\ chain.compareFn = NoFn /\ doneCalls[1] > 0) =>
        \A i, j \in 1..Len(out[1]) :
            i < j =>
                /\ ~(OrderKey(out[1][i]) = Undefined /\ OrderKey(out[1][j]) # Undefined)
                /\ (OrderKey(out[1][i]) # Undefined /\ OrderKey(out[1][j]) # Undefined) =>
                      IF chain.decending
                      THEN localeCompare(ToText(OrderKey(out[1][j])),
                                         ToText(OrderKey(out[1][i]))) <= 0
                      ELSE localeCompare(ToText(OrderKey(out[1][i])),
                                         ToText(OrderKey(out[1][j]))) <= 0

(***************************************************************************)
(* C13 - C16, C19, C20: one positional operator (take, skip, takeWhile,    *)
(* skipWhile, batchIn, zip) over the source, driven to exhaustion and      *)
(* beyond.                                                                 *)
(***************************************************************************)
MaxSliceLen == 4

MaxBatch == 3

MaxZipLen == 3

SliceCounts == (-1)..(MaxSliceLen + 1)

BatchSizes == (-1)..MaxBatch

Predicates == {"isEven", "isPositive", "indexIsZero"}

ZipSeconds == {LazyIterator(b, "B") : b \in SeqsUpTo(WindowElems, MaxZipLen)}

InitSlice ==
    /\ chain \in {LazyIterator(a, "A") : a \in SeqsUpTo(Elems, MaxSliceLen)}
    /\ cursors = [c \in CursorIds |-> NoCursor]
    /\ out = [c \in CursorIds |-> <<>>]
    /\ doneCalls = [c \in CursorIds |-> 0]
    /\ log = <<>>
    /\ error = NoError

BuildSlice ==
    /\ chain.op = "LazyIterator"
    /\ \/ \E count \in SliceCounts :
             Apply(LazyTake(chain, count)) \/ Apply(LazySkip(chain, count))
       \/ \E predicate \in Predicates :
             \/ Apply(LazyTakeWhile(chain, predicate))
             \/ Apply(LazySkipWhileOf(chain, predicate))
       \/ \E batchSize \in BatchSizes, includeIncomplete \in BOOLEAN :
             Apply(LazyBatchIn(chain, batchSize, includeIncomplete))
       \/ \E second \in ZipSeconds, selector \in {NoFn, "sum"} :
             Apply(LazyZip(chain, second, selector))

NextSlice == BuildSlice \/ Iterate(1) \/ CallNext(1)

SpecSlice == InitSlice /\ [][NextSlice]_vars

\* Cursor 1 has yielded a prefix of expected and, once it has reported
\* exhaustion, all of it and nothing more however often next() is called.
YieldsExactly(expected) ==
    /\ IsPrefix(out[1], expected)
    /\ doneCalls[1] > 0 => out[1] = expected

\* The number of leading elements of src that satisfy the predicate fn.
PassingPrefix(src, fn) ==
    CHOOSE k \in 0..Len(src) :
        /\ \A i \in 1..k : Call(fn, src[i], i - 1)
        /\ k < Len(src) => ~Call(fn, src[k + 1], k)

\* The calls of the callback fn in the log.
Calls(fn) == {i \in 1..Len(log) : log[i].k = "call" /\ log[i].n = fn}

\* The consecutive chunks of size s of src, with or without the trailing
\* undersized one.
Chunks(src, s, includeIncomplete) ==
    LET whole == Len(src) \div s
        count == IF includeIncomplete /\ Len(src) % s # 0 THEN whole + 1 ELSE whole
    IN  [j \in 1..count |-> SubSeq(src, (j - 1) * s + 1, Min(j * s, Len(src)))]

(***************************************************************************)
(* C13                                                                     *)
(***************************************************************************)
\* C13 as stated: batchIn with a negative batch size fails with
\* InvalidArgument: at the latest when the sequence has been driven to its
\* end, the error has been raised.
C13_NegativeBatchSizeFails ==
    (chain.op = "LazyBatchIn" /\ chain.batchSize < 0 /\ doneCalls[1] > 0) =>
        error = "InvalidArgument"

\* C13, amended: batchIn with a negative batch size raises no error when
\* built or driven; it yields the whole source as one chunk when
\* includeIncomplete is set and the source is not empty, and nothing
\* otherwise.
C13_NegativeBatchSizeAccepted ==
    (chain.op = "LazyBatchIn" /\ chain.batchSize < 0) =>
        /\ error = NoError
        /\ YieldsExactly(IF chain.includeIncomplete /\ Len(Source(chain)) > 0
                         THEN <<Source(chain)>> ELSE <<>>)

\* batchIn(-1) over a source of several elements has been exhausted.
C13_Witness ==
    /\ chain.op = "LazyBatchIn" /\ chain.batchSize < 0 /\ chain.includeIncomplete
    /\ Len(Source(chain)) = MaxSliceLen
    /\ doneCalls[1] > 0 /\ out[1] = <<Source(chain)>>

(***************************************************************************)
(* C14                                                                     *)
(***************************************************************************)
\* C14: take(n) yields exactly the first min(n, L) elements of the source,
\* in order, and nothing when n <= 0; skip(n) with n >= L yields nothing.
C14_TakeYieldsFirst ==
    /\ chain.op = "LazyTake" =>
          YieldsExactly(SubSeq(Source(chain), 1,
                               Min(Max(chain.count, 0), Len(Source(chain)))))
    /\ (chain.op = "LazySkip" /\ chain.count >= Len(Source(chain))) => out[1] = <<>>

\* take(n) with 0 < n < L has been exhausted after n elements.
C14_Witness ==
    /\ chain.op = "LazyTake" /\ chain.count = 2 /\ Len(Source(chain)) = MaxSliceLen
    /\ doneCalls[1] = MaxDoneCalls /\ Len(out[1]) = 2

C19_BatchInChunks ==
    (chain.op = "LazyBatchIn" /\ chain.batchSize >= 1) =>
        /\ YieldsExactly(Chunks(Source(chain), chain.batchSize, chain.includeIncomplete))
        /\ \A i \in 1..Len(out[1]) : out[1][i] # <<>>

\* batchIn(s, false) has dropped a trailing undersized chunk.
C19_Witness ==
    /\ chain.op = "LazyBatchIn" /\ chain.batchSize = 2 /\ ~chain.includeIncomplete
    /\ Len(Source(chain)) = 3
    /\ doneCalls[1] > 0 /\ Len(out[1]) = 1

(***************************************************************************)
(* C20                                                                     *)
(***************************************************************************)
\* C20: zip yields exactly min(|first|, |second|) elements, the i-th being
\* the combiner (by default the pair) of the i-th elements of the two
\* sources, and stays exhausted once either source has run out.
C20_ZipStopsAtShorter ==
    chain.op = "LazyZip" =>
        YieldsExactly([i \in 1..Min(Len(Source(chain)), Len(Second)) |->
                          Combine(chain.selector, Source(chain)[i], Second[i])])

\* zip with the default combiner has stopped at the shorter second source.
C20_Witness ==
    /\ chain.op = "LazyZip" /\ chain.selector = NoFn
    /\ Len(Second) = 2 /\ Len(Source(chain)) = MaxSliceLen
    /\ doneCalls[1] = MaxDoneCalls /\ Len(out[1]) = 2

(***************************************************************************)
(* The aggregates (aggregates.ts): functions that drive an iterable and    *)
(* return a value or throw.  kind is the class of the error thrown, err    *)
(* its message.                                                            *)
(***************************************************************************)
Return(v, ev) == [value |-> v, err |-> NoError, kind |-> NoError, ev |-> ev]

Throw(kind, message, ev) == [value |-> Undefined, err |-> message, kind |-> kind, ev |-> ev]

Errors_Empty == "Empty iterable"

RECURSIVE all_loop(_, _, _)
all_loop(it, predicate, ev) ==
    LET Pulled(r) ==
            IF r.done THEN Return(TRUE, ev \o r.ev)
            ELSE IF ~Call(predicate, r.value, 0)
            THEN Return(FALSE, ev \o r.ev \o <<CallEv(predicate)>>)
            ELSE all_loop(r.cur, predicate, ev \o r.ev \o <<CallEv(predicate)>>)
    IN  Pulled(next(it))

all(iterable, predicate) ==
    LET Over(it) ==
            IF it.err # NoError THEN Throw("Error", it.err, it.ev)
            ELSE all_loop(it.cur, predicate, it.ev)
    IN  Over(Symbol_iterator(iterable))

\* The mutant of any: it counts the matching elements.
anyByCounting(iterable, predicate) ==
    LET Over(r) ==
            IF r.err # NoError THEN Throw("Error", r.err, r.ev)
            ELSE Return(\E i \in 1..Len(r.vals) :
                            predicate = NoFn \/ Call(predicate, r.vals[i], 0), r.ev)
    IN  Over(ForOf(iterable, Given(predicate)))

RECURSIVE any_loop(_, _, _)
any_loop(it, predicate, ev) ==
    LET Pulled(r) ==
            IF r.done THEN Return(FALSE, ev \o r.ev)
            ELSE IF Call(predicate, r.value, 0)
            THEN Return(TRUE, ev \o r.ev \o <<CallEv(predicate)>>)
            ELSE any_loop(r.cur, predicate, ev \o r.ev \o <<CallEv(predicate)>>)
    IN  Pulled(next(it))

any(iterable, predicate) ==
    LET Probed(r) == Return(~r.done, r.ev)
        Over(it) ==
            IF it.err # NoError THEN Throw("Error", it.err, it.ev)
            ELSE IF predicate # NoFn THEN any_loop(it.cur, predicate, it.ev)
            ELSE After(it.ev, Probed(next(it.cur)))
    IN  Over(Symbol_iterator(iterable))

\* count that only counts numbers, as sum only adds numbers.
countNumbers(iterable, predicate) ==
    LET Over(r) ==
            IF r.err # NoError THEN Throw("Error", r.err, r.ev)
            ELSE IF \E i \in 1..Len(r.vals) : r.vals[i] = Undefined
            THEN Throw("TypeError", "Cannot perform function on a non-number value", r.ev)
            ELSE Return(Cardinality({i \in 1..Len(r.vals) :
                            predicate = NoFn \/ Call(predicate, r.vals[i], 0)}), r.ev)
    IN  Over(ForOf(iterable, Given(predicate)))

count(iterable, predicate) ==
    LET Over(r) ==
            IF r.err # NoError THEN Throw("Error", r.err, r.ev)
            ELSE Return(Cardinality({i \in 1..Len(r.vals) :
                            predicate = NoFn \/ Call(predicate, r.vals[i], 0)}), r.ev)
    IN  Over(ForOf(iterable, Given(predicate)))

RECURSIVE getElementAt_loop(_, _, _, _)
getElementAt_loop(it, index, cindex, ev) ==
    LET Pulled(r) ==
            IF r.done THEN [found |-> FALSE, element |-> Undefined, ev |-> ev \o r.ev]
            ELSE IF cindex = index
            THEN [found |-> TRUE, element |-> r.value, ev |-> ev \o r.ev]
            ELSE getElementAt_loop(r.cur, index, cindex + 1, ev \o r.ev)
    IN  Pulled(next(it))

getElementAt(iterable, index) ==
    LET Over(it) == getElementAt_loop(it.cur, index, 0, it.ev)
    IN  Over(Symbol_iterator(iterable))

\* elementAt without the test for a negative index.
elementAtUnchecked(iterable, index) ==
    LET Got(res) ==
            IF res.found THEN Return(res.element, res.ev)
            ELSE Throw("Error", "No element found at index " \o ToString(index), res.ev)
    IN  Got(getElementAt(iterable, index))

elementAt(iterable, index) ==
    LET Got(res) ==
            IF res.found THEN Return(res.element, res.ev)
            ELSE Throw("Error", "No element found at index " \o ToString(index), res.ev)
    IN  IF index < 0 THEN Throw("Error", "Index cannot be negative", <<>>)
        ELSE Got(getElementAt(iterable, index))

elementAtOrDefault(iterable, index, defaultValue) ==
    LET Got(res) ==
            IF res.found THEN Return(res.element, res.ev) ELSE Return(defaultValue, res.ev)
    IN  Got(getElementAt(iterable, index))

RECURSIVE getFirst_loop(_, _, _)
getFirst_loop(it, predicate, ev) ==
    LET Pulled(r) ==
            IF r.done THEN [items |-> FALSE, element |-> Undefined, ev |-> ev \o r.ev]
            ELSE IF predicate = NoFn \/ Call(predicate, r.value, 0)
            THEN [items |-> TRUE, element |-> r.value,
                  ev |-> ev \o r.ev \o CallEvs(Given(predicate))]
            ELSE getFirst_loop(r.cur, predicate, ev \o r.ev \o CallEvs(Given(predicate)))
    IN  Pulled(next(it))

getFirst(iterable, predicate) ==
    LET Over(it) == getFirst_loop(it.cur, predicate, it.ev)
    IN  Over(Symbol_iterator(iterable))

first(iterable, predicate) ==
    LET Got(res) ==
            IF res.items THEN Return(res.element, res.ev)
            ELSE Throw("Error", Errors_Empty, res.ev)
    IN  Got(getFirst(iterable, predicate))

firstOrDefault(iterable, defaultValue, predicate) ==
    LET Got(res) ==
            IF res.items THEN Return(res.element, res.ev) ELSE Return(defaultValue, res.ev)
    IN  Got(getFirst(iterable, predicate))

getLast(iterable, predicate) ==
    LET Over(r) ==
            LET matching == {i \in 1..Len(r.vals) :
                                predicate = NoFn \/ Call(predicate, r.vals[i], 0)}
            IN  IF matching = {}
                THEN [items |-> FALSE, element |-> Undefined, ev |-> r.ev]
                ELSE [items |-> TRUE,
                      element |-> r.vals[CHOOSE i \in matching : \A j \in matching : j <= i],
                      ev |-> r.ev]
    IN  Over(ForOf(iterable, Given(predicate)))

last(iterable, predicate) ==
    LET Got(res) ==
            IF res.items THEN Return(res.element, res.ev)
            ELSE Throw("Error", Errors_Empty, res.ev)
    IN  Got(getLast(iterable, predicate))

lastOrDefault(iterable, defaultValue, predicate) ==
    LET Got(res) ==
            IF res.items THEN Return(res.element, res.ev) ELSE Return(defaultValue, res.ev)
    IN  Got(getLast(iterable, predicate))

(***************************************************************************)
(* single and singleOrDefault                                              *)
(***************************************************************************)
RECURSIVE getSingle_loop(_, _, _)
getSingle_loop(it, predicate, ev) ==
    LET Pulled(r) ==
            IF r.done THEN [found |-> FALSE, element |-> Undefined, ev |-> ev \o r.ev]
            ELSE IF Call(predicate, r.value, 0)
            THEN [found |-> TRUE, element |-> r.value,
                  ev |-> ev \o r.ev \o <<CallEv(predicate)>>]
            ELSE getSingle_loop(r.cur, predicate, ev \o r.ev \o <<CallEv(predicate)>>)
    IN  Pulled(next(it))

getSingle(iterable, predicate) ==
    LET Over(it) == getSingle_loop(it.cur, predicate, it.ev)
    IN  Over(Symbol_iterator(iterable))

\* single that fails when more than one element satisfies the predicate.
singleUnique(iterable, predicate) ==
    LET Over(src) ==
            IF Cardinality({i \in 1..Len(src.vals) : Call(predicate, src.vals[i], 0)}) = 1
            THEN Return(src.vals[CHOOSE i \in 1..Len(src.vals) :
                                     Call(predicate, src.vals[i], 0)], src.ev)
            ELSE Throw("Error", Errors_Empty, src.ev)
    IN  Over(ForOf(iterable, <<predicate>>))

single(iterable, predicate) ==
    LET Got(res) ==
            IF res.found THEN Return(res.element, res.ev)
            ELSE Throw("Error", Errors_Empty, res.ev)
    IN  Got(getSingle(iterable, predicate))

singleOrDefault(iterable, predicate, defaultValue) ==
    LET Got(res) ==
            IF res.found THEN Return(res.element, res.ev) ELSE Return(defaultValue, res.ev)
    IN  Got(getSingle(iterable, predicate))

(***************************************************************************)
(* aggregate: gotSeed is arguments.length >= 3.                            *)
(***************************************************************************)
RECURSIVE aggregate_seeded(_, _, _, _)
aggregate_seeded(it, agg, acc, ev) ==
    LET Pulled(r) ==
            IF r.done THEN Return(acc, ev \o r.ev)
            ELSE aggregate_seeded(r.cur, agg, Combine(agg, acc, r.value),
                                  ev \o r.ev \o <<CallEv(agg)>>)
    IN  Pulled(next(it))

RECURSIVE aggregate_unseeded(_, _, _, _, _)
aggregate_unseeded(it, agg, acc, items, ev) ==
    LET Pulled(r) ==
            IF r.done
            THEN IF ~items THEN Throw("Error", Errors_Empty, ev \o r.ev)
                 ELSE Return(acc, ev \o r.ev)
            ELSE IF ~items THEN aggregate_unseeded(r.cur, agg, r.value, TRUE, ev \o r.ev)
            ELSE aggregate_unseeded(r.cur, agg, Combine(agg, acc, r.value), TRUE,
                                    ev \o r.ev \o <<CallEv(agg)>>)
    IN  Pulled(next(it))

\* aggregate that folds from the last element to the first.
aggregateFromLast(iterable, agg, gotSeed, seed) ==
    LET Backward(vals) == [i \in 1..Len(vals) |-> vals[Len(vals) + 1 - i]]
        Over(src) ==
            IF src.err # NoError THEN Throw("Error", src.err, src.ev)
            ELSE IF gotSeed
            THEN aggregate_seeded(ArrayIterator(Backward(src.vals), ""), agg, seed,
                                  src.ev)
            ELSE aggregate_unseeded(ArrayIterator(Backward(src.vals), ""), agg,
                                    Undefined, FALSE, src.ev)
    IN  Over(ForOf(iterable, <<>>))

aggregate(iterable, agg, gotSeed, seed) ==
    LET Over(it) ==
            IF it.err # NoError THEN Throw("Error", it.err, it.ev)
            ELSE IF gotSeed THEN aggregate_seeded(it.cur, agg, seed, it.ev)
            ELSE aggregate_unseeded(it.cur, agg, Undefined, FALSE, it.ev)
    IN  Over(Symbol_iterator(iterable))

(***************************************************************************)
(* sum, min, max and average.  typeof value === 'number' holds of every    *)
(* value but undefined; -Infinity is below and +Infinity above every       *)
(* number; the quotient of average is kept as numerator and denominator.   *)
(***************************************************************************)
Errors_NonNumber == "Cannot perform function on a non-number value"

MinusInfinity == -3

isNumber(value) == value # Undefined

Quotient(total, ccount) == [num |-> total, den |-> ccount]

RECURSIVE average_loop(_, _, _, _, _)
average_loop(it, selector, total, ccount, ev) ==
    LET Checked(r, value, ev1) ==
            IF ~isNumber(value) THEN Throw("TypeError", Errors_NonNumber, ev1)
            ELSE average_loop(r.cur, selector, total + value, ccount + 1, ev1)
        Pulled(r) ==
            IF r.done
            THEN IF ccount = 0 THEN Throw("Error", Errors_Empty, ev \o r.ev)
                 ELSE Return(Quotient(total, ccount), ev \o r.ev)
            ELSE Checked(r, KeyOf(selector, r.value),
                        ev \o r.ev \o CallEvs(Given(selector)))
    IN  Pulled(next(it))

average(iterable, selector) ==
    LET Over(it) ==
            IF it.err # NoError THEN Throw("Error", it.err, it.ev)
            ELSE average_loop(it.cur, selector, 0, 0, it.ev)
    IN  Over(Symbol_iterator(iterable))

RECURSIVE max_loop(_, _, _, _, _)
max_loop(it, selector, cmax, items, ev) ==
    LET Checked(r, value, ev1) ==
            IF ~isNumber(value) THEN Throw("TypeError", Errors_NonNumber, ev1)
            ELSE IF cmax = MinusInfinity \/ value > cmax
            THEN max_loop(r.cur, selector, value, TRUE, ev1)
            ELSE max_loop(r.cur, selector, cmax, TRUE, ev1)
        Pulled(r) ==
            IF r.done
            THEN IF ~items THEN Throw("Error", Errors_Empty, ev \o r.ev)
                 ELSE Return(cmax, ev \o r.ev)
            ELSE Checked(r, KeyOf(selector, r.value),
                        ev \o r.ev \o CallEvs(Given(selector)))
    IN  Pulled(next(it))

max(iterable, selector) ==
    LET Over(it) ==
            IF it.err # NoError THEN Throw("Error", it.err, it.ev)
            ELSE max_loop(it.cur, selector, MinusInfinity, FALSE, it.ev)
    IN  Over(Symbol_iterator(iterable))

RECURSIVE min_loop(_, _, _, _, _)
min_loop(it, selector, cmin, items, ev) ==
    LET Checked(r, value, ev1) ==
            IF ~isNumber(value) THEN Throw("TypeError", Errors_NonNumber, ev1)
            ELSE IF cmin = Infinity \/ value < cmin
            THEN min_loop(r.cur, selector, value, TRUE, ev1)
            ELSE min_loop(r.cur, selector, cmin, TRUE, ev1)
        Pulled(r) ==
            IF r.done
            THEN IF ~items THEN Throw("Error", Errors_Empty, ev \o r.ev)
                 ELSE Return(cmin, ev \o r.ev)
            ELSE Checked(r, KeyOf(selector, r.value),
                        ev \o r.ev \o CallEvs(Given(selector)))
    IN  Pulled(next(it))

min(iterable, selector) ==
    LET Over(it) ==
            IF it.err # NoError THEN Throw("Error", it.err, it.ev)
            ELSE min_loop(it.cur, selector, Infinity, FALSE, it.ev)
    IN  Over(Symbol_iterator(iterable))

RECURSIVE sum_loop(_, _, _, _, _)
sum_loop(it, selector, total, items, ev) ==
    LET Checked(r, value, ev1) ==
            IF ~isNumber(value) THEN Throw("TypeError", Errors_NonNumber, ev1)
            ELSE sum_loop(r.cur, selector, total + value, TRUE, ev1)
        Pulled(r) ==
            IF r.done
            THEN IF ~items THEN Throw("Error", Errors_Empty, ev \o r.ev)
                 ELSE Return(total, ev \o r.ev)
            ELSE Checked(r, KeyOf(selector, r.value),
                        ev \o r.ev \o CallEvs(Given(selector)))
    IN  Pulled(next(it))

\* sum that reads the whole input before it looks at the values.
sumAfterDraining(iterable, selector) ==
    LET Over(src) ==
            IF src.err # NoError THEN Throw("Error", src.err, src.ev)
            ELSE sum_loop(ArrayIterator(src.vals, ""), selector, 0, FALSE, src.ev)
    IN  Over(ForOf(iterable, <<>>))

sum(iterable, selector) ==
    LET Over(it) ==
            IF it.err # NoError THEN Throw("Error", it.err, it.ev)
            ELSE sum_loop(it.cur, selector, 0, FALSE, it.ev)
    IN  Over(Symbol_iterator(iterable))

(***************************************************************************)
(* LazyIterator (the Sequence made by Lazy.from): the terminals that take  *)
(* a shortcut when the wrapped iterable is an array.  super.f(...) is the  *)
(* aggregate f applied to this.                                            *)
(***************************************************************************)
isArray(iterable) == DOMAIN iterable = 1..Len(iterable)

LazyIterator_count(this, predicate) ==
    IF predicate # NoFn THEN count(this, predicate)
    ELSE IF isArray(this.iterable) THEN Return(Len(this.iterable), <<>>)
    ELSE count(this, NoFn)

\* An elementAt whose bounds test admits the index one past the end.
LazyIterator_elementAtUpTo(this, index) ==
    IF isArray(this.iterable)
    THEN IF index >= 0 /\ index < Len(this.iterable)
         THEN Return(this.iterable[index + 1], <<>>)
         ELSE IF index = Len(this.iterable) THEN Return(Undefined, <<>>)
         ELSE Throw("Error", "Index out of array bounds", <<>>)
    ELSE elementAt(this, index)

LazyIterator_elementAt(this, index) ==
    IF isArray(this.iterable)
    THEN IF index >= 0 /\ index < Len(this.iterable)
         THEN Return(this.iterable[index + 1], <<>>)
         ELSE Throw("Error", "Index out of array bounds", <<>>)
    ELSE elementAt(this, index)

LazyIterator_elementAtOrDefault(this, index, defaultValue) ==
    IF isArray(this.iterable)
    THEN IF index >= 0 /\ index < Len(this.iterable)
         THEN Return(this.iterable[index + 1], <<>>)
         ELSE Return(defaultValue, <<>>)
    ELSE elementAtOrDefault(this, index, defaultValue)

LazyIterator_first(this, predicate) ==
    IF predicate # NoFn THEN first(this, predicate)
    ELSE IF isArray(this.iterable)
    THEN IF Len(this.iterable) > 0 THEN Return(this.iterable[1], <<>>)
         ELSE Throw("Error", Errors_Empty, <<>>)
    ELSE first(this, NoFn)

LazyIterator_firstOrDefault(this, defaultValue, predicate) ==
    IF predicate # NoFn THEN firstOrDefault(this, defaultValue, predicate)
    ELSE IF isArray(this.iterable)
    THEN IF Len(this.iterable) > 0 THEN Return(this.iterable[1], <<>>)
         ELSE Return(defaultValue, <<>>)
    ELSE firstOrDefault(this, defaultValue, NoFn)

\* A last that reports an empty array with elementAt's message.
LazyIterator_lastAsIndexed(this, predicate) ==
    IF predicate # NoFn THEN last(this, predicate)
    ELSE IF isArray(this.iterable)
    THEN IF Len(this.iterable) > 0 THEN Return(this.iterable[Len(this.iterable)], <<>>)
         ELSE Throw("Error", "Index out of array bounds", <<>>)
    ELSE last(this, NoFn)

LazyIterator_last(this, predicate) ==
    IF predicate # NoFn THEN last(this, predicate)
    ELSE IF isArray(this.iterable)
    THEN IF Len(this.iterable) > 0 THEN Return(this.iterable[Len(this.iterable)], <<>>)
         ELSE Throw("Error", Errors_Empty, <<>>)
    ELSE last(this, NoFn)

LazyIterator_lastOrDefault(this, defaultValue, predicate) ==
    IF predicate # NoFn THEN lastOrDefault(this, defaultValue, predicate)
    ELSE IF isArray(this.iterable)
    THEN IF Len(this.iterable) > 0 THEN Return(this.iterable[Len(this.iterable)], <<>>)
         ELSE Return(defaultValue, <<>>)
    ELSE lastOrDefault(this, defaultValue, NoFn)

(***************************************************************************)
(* A terminal call: the method named call.name with the arguments of the   *)
(* record call.  Lazy_method is the method of the base class, which hands  *)
(* this to the aggregate; Method is the one the object's class has.        *)
(***************************************************************************)
Lazy_method(this, call) ==
    CASE call.name = "all" -> all(this, call.predicate)
      [] call.name = "any" -> any(this, call.predicate)
      [] call.name = "count" -> count(this, call.predicate)
      [] call.name = "elementAt" -> elementAt(this, call.index)
      [] call.name = "elementAtOrDefault" ->
            elementAtOrDefault(this, call.index, call.defaultValue)
      [] call.name = "first" -> first(this, call.predicate)
      [] call.name = "firstOrDefault" ->
            firstOrDefault(this, call.defaultValue, call.predicate)
      [] call.name = "last" -> last(this, call.predicate)
      [] call.name = "lastOrDefault" ->
            lastOrDefault(this, call.defaultValue, call.predicate)

LazyIterator_method(this, call) ==
    CASE call.name = "count" -> LazyIterator_count(this, call.predicate)
      [] call.name = "elementAt" -> LazyIterator_elementAt(this, call.index)
      [] call.name = "elementAtOrDefault" ->
            LazyIterator_elementAtOrDefault(this, call.index, call.defaultValue)
      [] call.name = "first" -> LazyIterator_first(this, call.predicate)
      [] call.name = "firstOrDefault" ->
            LazyIterator_firstOrDefault(this, call.defaultValue, call.predicate)
      [] call.name = "last" -> LazyIterator_last(this, call.predicate)
      [] call.name = "lastOrDefault" ->
            LazyIterator_lastOrDefault(this, call.defaultValue, call.predicate)
      [] OTHER -> Lazy_method(this, call)

Method(this, call) ==
    IF this.op = "LazyIterator" THEN LazyIterator_method(this, call)
    ELSE Lazy_method(this, call)

\* The folding methods of from(a); only count has an array shortcut.
LazyIterator_fold(this, call) ==
    CASE call.name = "aggregate" ->
            IF call.gotSeed THEN aggregate(this, call.agg, TRUE, call.seed)
            ELSE aggregate(this, call.agg, FALSE, Undefined)
      [] call.name = "average" -> average(this, call.selector)
      [] call.name = "count" -> LazyIterator_count(this, call.predicate)
      [] call.name = "max" -> max(this, call.selector)
      [] call.name = "min" -> min(this, call.selector)
      [] call.name = "sum" -> sum(this, call.selector)

(***************************************************************************)
(* C11, C12, C17: one terminal called on from(a), or on a select over it.  *)
(* The call is logged, then what it pulls and calls, then the class of the *)
(* error if it throws; its value goes to out[1], its message to error.     *)
(***************************************************************************)
MaxTerminalLen == 3

Indexes == (-1)..(MaxTerminalLen + 1)

Defaults == {9}

TerminalCall(name, index, defaultValue, predicate) ==
    [name |-> name, index |-> index, defaultValue |-> defaultValue,
     predicate |-> predicate]

TerminalCalls ==
    {TerminalCall(name, 0, Undefined, predicate) :
        name \in {"any", "count", "first", "last"},
        predicate \in {NoFn, "isEven", "isPositive"}}
    \cup {TerminalCall("all", 0, Undefined, predicate) :
            predicate \in {"isEven", "isPositive"}}
    \cup {TerminalCall(name, 0, defaultValue, predicate) :
            name \in {"firstOrDefault", "lastOrDefault"}, defaultValue \in Defaults,
            predicate \in {NoFn, "isEven", "isPositive"}}
    \cup {TerminalCall("elementAt", index, Undefined, NoFn) : index \in Indexes}
    \cup {TerminalCall("elementAtOrDefault", index, defaultValue, NoFn) :
            index \in Indexes, defaultValue \in Defaults}

TerminalEv(call) == [k |-> "terminal", n |-> call]

ThrowEv(kind) == [k |-> "throw", n |-> kind]

Invoked == \E i \in 1..Len(log) : log[i].k = "terminal"

InitTerminal ==
    /\ chain \in {LazyIterator(a, "A") : a \in SeqsUpTo(Elems, MaxTerminalLen)}
    /\ cursors = [c \in CursorIds |-> NoCursor]
    /\ out = [c \in CursorIds |-> <<>>]
    /\ doneCalls = [c \in CursorIds |-> 0]
    /\ log = <<>>
    /\ error = NoError

BuildTerminal == chain.op = "LazyIterator" /\ ~Invoked /\ Apply(LazySelect(chain, "succ"))

\* The caller calls a terminal method of the chain.
Terminal(call) ==
    /\ Undriven /\ ~Invoked /\ error = NoError
    /\ LET Returned(r) ==
               /\ log' = log \o <<TerminalEv(call)>> \o r.ev
                             \o (IF r.err # NoError THEN <<ThrowEv(r.kind)>> ELSE <<>>)
               /\ error' = r.err
               /\ out' = [out EXCEPT ![1] = IF r.err = NoError THEN <<r.value>> ELSE <<>>]
       IN  Returned(Method(chain, call))
    /\ UNCHANGED <<chain, cursors, doneCalls>>

NextTerminal == BuildTerminal \/ \E call \in TerminalCalls : Terminal(call)

SpecTerminal == InitTerminal /\ [][NextTerminal]_vars

\* The terminal call made, and the class of the error it threw.
TheCall == log[CHOOSE i \in 1..Len(log) : log[i].k = "terminal"].n

ThrownKind == log[CHOOSE i \in 1..Len(log) : log[i].k = "throw"].n

\* The terminal was called directly on from(a) and is one of those with an
\* array shortcut.
OnFastPath ==
    /\ Invoked /\ chain.op = "LazyIterator"
    /\ TheCall.name \in {"count", "elementAt", "elementAtOrDefault", "first",
                         "firstOrDefault", "last", "lastOrDefault"}

(***************************************************************************)
(* C11                                                                     *)
(***************************************************************************)
\* C11: a terminal with an array shortcut, called on from(a), returns the
\* value the general traversal returns for the same elements, and fails
\* exactly when the general traversal fails.
C11_FastPathSameResults ==
    OnFastPath =>
        LET Same(general) ==
                /\ (error = NoError) <=> (general.err = NoError)
                /\ error = NoError => out[1] = <<general.value>>
        IN  Same(Lazy_method(chain, TheCall))

\* elementAt has returned the last element of an array without pulling it.
C11_Witness ==
    /\ OnFastPath /\ TheCall.name = "elementAt" /\ TheCall.index = MaxTerminalLen - 1
    /\ Len(chain.iterable) = MaxTerminalLen
    /\ out[1] = <<chain.iterable[MaxTerminalLen]>> /\ Len(log) = 1

(***************************************************************************)
(* C12                                                                     *)
(***************************************************************************)
\* C12 as stated: a failing shortcut raises the error the general traversal
\* raises for the same input: the same kind and the same message.
C12_FastPathSameErrors ==
    (OnFastPath /\ error # NoError) =>
        LET Same(general) == ThrownKind = general.kind /\ error = general.err
        IN  Same(Lazy_method(chain, TheCall))

\* C12, amended: a failing shortcut raises an error of the same kind as the
\* general traversal; first() and last() on an empty array carry the same
\* message, while elementAt says 'Index out of array bounds' where the
\* general traversal says 'Index cannot be negative' for a negative index
\* and 'No element found at index i' at or past the end.
C12_FastPathSameKind ==
    (OnFastPath /\ error # NoError) =>
        LET Same(general) ==
                /\ ThrownKind = general.kind
                /\ TheCall.name \in {"first", "last"} =>
                      error = general.err /\ error = Errors_Empty
                /\ TheCall.name = "elementAt" =>
                      /\ error = "Index out of array bounds"
                      /\ general.err = IF TheCall.index < 0
                                       THEN "Index cannot be negative"
                                       ELSE "No element found at index "
                                                \o ToString(TheCall.index)
        IN  Same(Lazy_method(chain, TheCall))

\* elementAt with a negative index has failed on a non-empty array.
C12_Witness ==
    /\ OnFastPath /\ TheCall.name = "elementAt" /\ TheCall.index < 0
    /\ Len(chain.iterable) > 0
    /\ error = "Index out of array bounds" /\ ThrownKind = "Error"

(***************************************************************************)
(* C17                                                                     *)
(***************************************************************************)
\* The elements of the chain a terminal was called on.
Elements ==
    IF chain.op = "LazySelect"
    THEN [i \in 1..Len(Source(chain)) |-> Call(chain.selector, Source(chain)[i], i - 1)]
    ELSE Source(chain)

\* The number of leading elements of src that do not satisfy fn.
FailingPrefix(src, fn) ==
    CHOOSE k \in 0..Len(src) :
        /\ \A i \in 1..k : ~Call(fn, src[i], 0)
        /\ k < Len(src) => Call(fn, src[k + 1], 0)

\* C17: all(p) is the universal and any(p) the existential quantification
\* of p over the elements, any() tells whether there is an element; all
\* pulls nothing after the first element failing p, any(p) nothing after
\* the first element satisfying p, and any() at most one element.
C17_AllAnyShortCircuit ==
    (Invoked /\ TheCall.name \in {"all", "any"}) =>
        CASE TheCall.name = "all" ->
                /\ out[1] = <<\A i \in 1..Len(Elements) :
                                 Call(TheCall.predicate, Elements[i], 0)>>
                /\ Cardinality(Pulls("A")) <= PassingPrefix(Elements, TheCall.predicate) + 1
          [] TheCall.name = "any" /\ TheCall.predicate # NoFn ->
                /\ out[1] = <<\E i \in 1..Len(Elements) :
                                 Call(TheCall.predicate, Elements[i], 0)>>
                /\ Cardinality(Pulls("A")) <= FailingPrefix(Elements, TheCall.predicate) + 1
          [] OTHER ->
                /\ out[1] = <<Len(Elements) > 0>>
                /\ Cardinality(Pulls("A")) <= 1

\* all(isEven) has returned false at the second of three elements, the
\* third of which is even.
C17_Witness ==
    /\ Invoked /\ TheCall.name = "all" /\ TheCall.predicate = "isEven"
    /\ chain.op = "LazyIterator" /\ Source(chain) = <<0, 1, 2>>
    /\ out[1] = <<FALSE>> /\ Cardinality(Pulls("A")) = 2

(***************************************************************************)
(* C33                                                                     *)
(***************************************************************************)
\* C33 (as claimed): elementAt(i) with i < 0 fails with the argument error,
\* 'Index cannot be negative', and not with the error of an index past the
\* end.
C33_NegativeIndexIsArgumentError ==
    (Invoked /\ TheCall.name = "elementAt" /\ TheCall.index < 0) =>
        error = "Index cannot be negative"

\* C33 (amended): elementAt(i) returns the element at position i; for i < 0
\* it throws without pulling any element and for i >= length it throws, in
\* both cases 'Index out of array bounds' when called directly on
\* from(array), and 'Index cannot be negative' and 'No element found at index
\* i' otherwise; elementAtOrDefault(i, d) returns the element at position i,
\* and d whenever i is negative or past the end.
C33_ElementAtByIndex ==
    (Invoked /\ TheCall.name \in {"elementAt", "elementAtOrDefault"}) =>
        IF TheCall.index >= 0 /\ TheCall.index < Len(Elements)
        THEN error = NoError /\ out[1] = <<Elements[TheCall.index + 1]>>
        ELSE IF TheCall.name = "elementAtOrDefault"
        THEN error = NoError /\ out[1] = <<TheCall.defaultValue>>
        ELSE /\ ThrownKind = "Error" /\ out[1] = <<>>
             /\ TheCall.index < 0 => Pulls("A") = {}
             /\ error = IF chain.op = "LazyIterator" THEN "Index out of array bounds"
                        ELSE IF TheCall.index < 0 THEN "Index cannot be negative"
                        ELSE "No element found at index " \o ToString(TheCall.index)

\* elementAt(-1) on a select over [0, 1] has thrown the argument error
\* without a pull.
C33_Witness ==
    /\ Invoked /\ TheCall.name = "elementAt" /\ TheCall.index = -1
    /\ chain.op = "LazySelect" /\ Source(chain) = <<0, 1>>
    /\ error = "Index cannot be negative" /\ Pulls("A") = {}

(***************************************************************************)
(* C18: a take over a generated source (range, repeat), with or without    *)
(* an end, driven the way toArray's loop drives it: next() is called       *)
(* until it reports exhaustion.  A source is driven only through take.     *)
(***************************************************************************)
MaxTake == 3

Generated ==
    {LazyRange(start, end) : start \in {0, 1, 2}, end \in {Infinity, 0, 3}}
    \cup {LazyRepeat(element, times) : element \in {0, 1}, times \in {Infinity, 0, 2}}

Unbounded(s) ==
    \/ s.op = "LazyRange" /\ s.end = Infinity
    \/ s.op = "LazyRepeat" /\ s.count = Infinity

InitGenerated ==
    /\ chain \in Generated
    /\ cursors = [c \in CursorIds |-> NoCursor]
    /\ out = [c \in CursorIds |-> <<>>]
    /\ doneCalls = [c \in CursorIds |-> 0]
    /\ log = <<>>
    /\ error = NoError

BuildTake ==
    /\ chain.op \in {"LazyRange", "LazyRepeat"}
    /\ \E n \in 0..MaxTake : Apply(LazyTake(chain, n))

IterateTake == chain.op = "LazyTake" /\ Iterate(1)

NextGenerated == BuildTake \/ IterateTake \/ CallNext(1)

SpecGenerated ==
    InitGenerated /\ [][NextGenerated]_vars /\ WF_vars(IterateTake) /\ WF_vars(CallNext(1))

TakeOverUnbounded == chain.op = "LazyTake" /\ Unbounded(chain.iterable)

\* C18: a take(n) over a range without end or a repeat without count, once
\* driven, always comes to report exhaustion, having yielded exactly n
\* elements; it never yields more than n.
C18_TakeBoundsUnbounded ==
    /\ [](TakeOverUnbounded => Len(out[1]) <= chain.count)
    /\ [](TakeOverUnbounded => <>(doneCalls[1] > 0 /\ Len(out[1]) = chain.count))

\* take(n) over an endless range has been exhausted after n elements.
C18_Witness ==
    /\ TakeOverUnbounded /\ chain.iterable.op = "LazyRange" /\ chain.count = MaxTake
    /\ doneCalls[1] > 0
    /\ out[1] = [i \in 1..MaxTake |-> chain.iterable.start + i - 1]

(***************************************************************************)
(* Set operators, grouping and reversal over one source array: the caller  *)
(* applies distinct, union, intersect, except, groupBy or reverse (once or *)
(* twice) and drives the chain.                                            *)
(***************************************************************************)
MaxSetLen == 3

MaxSetSecondLen == 2

CompareOns == {NoFn, "half"}

SetSeconds == {LazyIterator(b, "B") : b \in SeqsUpTo(Elems, MaxSetSecondLen)}

InitSets ==
    /\ chain \in {LazyIterator(a, "A") : a \in SeqsUpTo(Elems, MaxSetLen)}
    /\ cursors = [c \in CursorIds |-> NoCursor]
    /\ out = [c \in CursorIds |-> <<>>]
    /\ doneCalls = [c \in CursorIds |-> 0]
    /\ log = <<>>
    /\ error = NoError

BuildSets ==
    /\ chain.op = "LazyIterator"
    /\ \/ \E compareOn \in CompareOns : Apply(LazyDistinct(chain, compareOn))
       \/ \E second \in SetSeconds, compareOn \in CompareOns :
             \/ Apply(LazyUnion(chain, second, compareOn))
             \/ Apply(LazyIntersect(chain, second, compareOn))
             \/ Apply(LazyExcept(chain, second, compareOn))
       \/ \E keyFn \in {"identity", "half"}, elementSelector \in {NoFn, "succ"} :
             Apply(LazyGroupBy(chain, keyFn, elementSelector, NoFn))
       \/ Apply(LazyReverse(chain))

\* reverse() of a reversed source.
BuildReverseAgain ==
    /\ chain.op = "LazyReverse" /\ chain.iterable.op = "LazyIterator"
    /\ Apply(LazyReverse(chain))

NextSets == BuildSets \/ BuildReverseAgain \/ Iterate(1) \/ CallNext(1)

SpecSets == InitSets /\ [][NextSets]_vars

\* The elements of vals at the positions keep, in order of position.
RECURSIVE AtPositions(_, _)
AtPositions(vals, keep) ==
    IF keep = {} THEN <<>>
    ELSE LET m == CHOOSE i \in keep : \A j \in keep : j <= i
         IN  Append(AtPositions(vals, keep \ {m}), vals[m])

\* The positions of vals that are the first with their key.
FirstOfKey(vals, compareOn) ==
    {i \in 1..Len(vals) :
        \A j \in 1..(i - 1) : KeyOf(compareOn, vals[j]) # KeyOf(compareOn, vals[i])}

\* C21: distinct(keyFn) yields exactly the first element of the source for
\* each distinct key, in source order, and never two elements that have the
\* same key.
C21_DistinctFirstOccurrences ==
    (chain.op = "LazyDistinct" /\ cursors[1] # NoCursor) =>
        /\ YieldsExactly(AtPositions(Source(chain),
                                     FirstOfKey(Source(chain), chain.compareOn)))
        /\ \A i, j \in 1..Len(out[1]) :
              KeyOf(chain.compareOn, out[1][i]) = KeyOf(chain.compareOn, out[1][j])
                  => i = j

C21_Witness ==
    /\ chain.op = "LazyDistinct" /\ chain.compareOn = "half"
    /\ Source(chain) = <<2, 0, 1>>
    /\ out[1] = <<2, 0>> /\ doneCalls[1] > 0

\* C22: union is concat-then-distinct: A.union(B, keyFn) yields the same
\* element sequence as A.concat(B).distinct(keyFn).
C22_UnionIsConcatDistinct ==
    (chain.op = "LazyUnion" /\ cursors[1] # NoCursor) =>
        YieldsExactly(toArray(LazyDistinct(LazyConcat(<<chain.iterable,
                                                        chain.secondIterable>>),
                                           chain.compareOn)).vals)

C22_Witness ==
    /\ chain.op = "LazyUnion" /\ chain.compareOn = "half"
    /\ First = <<2, 0, 2>> /\ Second = <<1, 2>>
    /\ out[1] = <<2, 0>> /\ doneCalls[1] > 0

\* The positions of the primary input that are the first with their key and
\* whose key also occurs in the second input.
FirstOfSharedKey(primary, secondary, compareOn) ==
    {i \in FirstOfKey(primary, compareOn) :
        \E j \in 1..Len(secondary) :
            KeyOf(compareOn, secondary[j]) = KeyOf(compareOn, primary[i])}

\* C23: intersect(second, keyFn) yields, in primary order, the first primary
\* element of each key that also occurs in second: at most one element for
\* each distinct key.
C23_IntersectFirstOfSharedKeys ==
    (chain.op = "LazyIntersect" /\ cursors[1] # NoCursor) =>
        YieldsExactly(AtPositions(First,
                                  FirstOfSharedKey(First, Second, chain.compareOn)))

C23_Witness ==
    /\ chain.op = "LazyIntersect" /\ chain.compareOn = "half"
    /\ First = <<0, 1, 2>> /\ Second = <<1, 2>>
    /\ out[1] = <<0, 2>> /\ doneCalls[1] > 0

\* The keys of the elements of vals.
KeysOf(vals) == {KeyOf(chain.compareOn, vals[i]) : i \in 1..Len(vals)}

\* C24: except(second) is an XOR of the two inputs: once exhausted, the keys
\* of the yielded elements are exactly the keys that occur in one of the two
\* inputs and not in the other.
C24_ExceptIsXor ==
    (chain.op = "LazyExcept" /\ doneCalls[1] > 0) =>
        KeysOf(out[1]) = (KeysOf(First) \ KeysOf(Second))
                             \cup (KeysOf(Second) \ KeysOf(First))

\* The elements of vals that have the key of x under keyFn, in order.
WithKeyOf(vals, keyFn, x) ==
    SelectSeq(vals, LAMBDA y : Call(keyFn, y, 0) = Call(keyFn, x, 0))

\* The groupings of vals: one for each distinct key, in the order the keys
\* first occur, each with the selected elements of that key in order.
Groupings(vals, keyFn, elementSelector) ==
    LET firsts == AtPositions(vals, FirstOfKey(vals, keyFn))
        Selected(members) ==
            [i \in 1..Len(members) |-> KeyOf(elementSelector, members[i])]
    IN  [g \in 1..Len(firsts) |->
            [key |-> Call(keyFn, firsts[g], 0),
             elements |-> Selected(WithKeyOf(vals, keyFn, firsts[g]))]]

\* C25: groupBy yields one grouping for each distinct key, in the order the
\* keys first occur in the source, and each grouping holds all and only the
\* source elements of that key, projected by the element selector, in source
\* order.
C25_GroupByGroupings ==
    (chain.op = "LazyGroupBy" /\ cursors[1] # NoCursor) =>
        YieldsExactly(Groupings(Source(chain), chain.keyFn, chain.elementSelector))

C25_Witness ==
    /\ chain.op = "LazyGroupBy" /\ chain.keyFn = "half"
    /\ chain.elementSelector = "succ"
    /\ Source(chain) = <<2, 0, 1>>
    /\ out[1] = <<[key |-> 1, elements |-> <<3>>], [key |-> 0, elements |-> <<1, 2>>]>>
    /\ doneCalls[1] > 0

\* vals from its last element to its first.
Backwards(vals) == [i \in 1..Len(vals) |-> vals[Len(vals) + 1 - i]]

\* C27: reverse yields the elements of the source in exactly reversed order,
\* and reverse().reverse() yields the source as it is.
C27_ReverseReverses ==
    (chain.op = "LazyReverse" /\ cursors[1] # NoCursor) =>
        IF chain.iterable.op = "LazyReverse"
        THEN YieldsExactly(Source(chain))
        ELSE YieldsExactly(Backwards(Source(chain)))

C27_Witness ==
    /\ chain.op = "LazyReverse" /\ chain.iterable.op = "LazyReverse"
    /\ Source(chain) = <<0, 1, 2>>
    /\ out[1] = <<0, 1, 2>> /\ doneCalls[1] > 0

(***************************************************************************)
(* Orderings whose keys collide: the caller orders a source array by a key *)
(* function that gives several elements the same key, ascending or         *)
(* descending, with the default or the numeric comparator, and drives the  *)
(* chain.  Array.prototype.sort is the stable sort of ECMAScript 2019.     *)
(***************************************************************************)
MaxStableLen == 4

\* x => floor(x / 2), x => 0 and x => 5 * (2 - x).
CollidingKeyFns ==
    {[x \in Elems |-> x \div 2], [x \in Elems |-> 0], [x \in Elems |-> 5 * (2 - x)]}

InitStable ==
    /\ chain \in {LazyIterator(a, "A") : a \in SeqsUpTo(Elems, MaxStableLen)}
    /\ cursors = [c \in CursorIds |-> NoCursor]
    /\ out = [c \in CursorIds |-> <<>>]
    /\ doneCalls = [c \in CursorIds |-> 0]
    /\ log = <<>>
    /\ error = NoError

BuildStable ==
    /\ chain.op = "LazyIterator"
    /\ \E keyFn \in CollidingKeyFns, compareFn \in {NoFn, "numericComparer"},
          decending \in BOOLEAN :
          Apply(LazyOrderBy(chain, keyFn, compareFn, decending))

NextStable == BuildStable \/ Iterate(1) \/ CallNext(1)

SpecStable == InitStable /\ [][NextStable]_vars

\* The comparator of the ordered chain on the keys of the elements x and y,
\* reversed when the ordering is descending.
Ordering(x, y) ==
    IF chain.decending THEN Compare(chain.compareFn, chain.keyFn[y], chain.keyFn[x])
    ELSE Compare(chain.compareFn, chain.keyFn[x], chain.keyFn[y])

MaxFoldLen == 3

Seeds == {1, 3}

NumericCall(name, selector) == [name |-> name, selector |-> selector]

AggregateCall(agg, gotSeed, seed) ==
    [name |-> "aggregate", agg |-> agg, gotSeed |-> gotSeed, seed |-> seed]

FoldCalls ==
    {NumericCall(name, selector) :
        name \in {"sum", "min", "max", "average"}, selector \in {NoFn, "ifPositive"}}
    \cup {AggregateCall(agg, FALSE, Undefined) : agg \in {"sum", "doubleAndAdd"}}
    \cup {AggregateCall(agg, TRUE, seed) : agg \in {"sum", "doubleAndAdd"}, seed \in Seeds}
    \cup {TerminalCall("count", 0, Undefined, predicate) : predicate \in {NoFn, "isEven"}}

InitFold ==
    /\ chain \in {LazyIterator(a, "A") :
                  a \in SeqsUpTo(Elems \cup {Undefined}, MaxFoldLen)}
    /\ cursors = [c \in CursorIds |-> NoCursor]
    /\ out = [c \in CursorIds |-> <<>>]
    /\ doneCalls = [c \in CursorIds |-> 0]
    /\ log = <<>>
    /\ error = NoError

\* The caller calls a folding method of from(a).
Fold(call) ==
    /\ call.name = "aggregate" =>
          \A i \in 1..Len(chain.iterable) : isNumber(chain.iterable[i])
    /\ Undriven /\ ~Invoked /\ error = NoError
    /\ LET Returned(r) ==
               /\ log' = log \o <<TerminalEv(call)>> \o r.ev
                             \o (IF r.err # NoError THEN <<ThrowEv(r.kind)>> ELSE <<>>)
               /\ error' = r.err
               /\ out' = [out EXCEPT ![1] = IF r.err = NoError THEN <<r.value>> ELSE <<>>]
       IN  Returned(LazyIterator_fold(chain, call))
    /\ UNCHANGED <<chain, cursors, doneCalls>>

NextFold == \E call \in FoldCalls : Fold(call)

SpecFold == InitFold /\ [][NextFold]_vars

\* The left fold of vals by the function fn, from acc.
RECURSIVE FoldLeft(_, _, _)
FoldLeft(fn, acc, vals) ==
    IF vals = <<>> THEN acc
    ELSE FoldLeft(fn, Combine(fn, acc, Head(vals)), Tail(vals))

\* C29: aggregate with a seed folds the elements from left to right starting
\* from the seed, which it returns for an empty sequence; without a seed it
\* starts from the first element and folds the rest, and fails with 'Empty
\* iterable' on an empty sequence.
C29_AggregateFoldsLeft ==
    (Invoked /\ TheCall.name = "aggregate") =>
        IF TheCall.gotSeed
        THEN /\ error = NoError
             /\ out[1] = <<FoldLeft(TheCall.agg, TheCall.seed, Source(chain))>>
        ELSE IF Source(chain) = <<>>
        THEN error = Errors_Empty /\ ThrownKind = "Error" /\ out[1] = <<>>
        ELSE /\ error = NoError
             /\ out[1] = <<FoldLeft(TheCall.agg, Head(Source(chain)),
                                    Tail(Source(chain)))>>

\* aggregate((acc, x) => 2 * acc + x) over [1, 2, 0] has returned (2*1+2)*2+0.
C29_Witness ==
    /\ Invoked /\ TheCall.name = "aggregate" /\ ~TheCall.gotSeed
    /\ TheCall.agg = "doubleAndAdd"
    /\ Source(chain) = <<1, 2, 0>> /\ out[1] = <<8>>

\* The values a numeric fold works on: the elements, or the selector's
\* results.
FoldValues ==
    [i \in 1..Len(Source(chain)) |-> KeyOf(TheCall.selector, Source(chain)[i])]

NonNumbers == {i \in 1..Len(FoldValues) : FoldValues[i] = Undefined}

RECURSIVE Total(_)
Total(vals) == IF vals = <<>> THEN 0 ELSE Head(vals) + Total(Tail(vals))

FoldResult ==
    CASE TheCall.name = "sum" -> Total(FoldValues)
      [] TheCall.name = "average" -> [num |-> Total(FoldValues), den |-> Len(FoldValues)]
      [] TheCall.name = "min" ->
            CHOOSE m \in {FoldValues[i] : i \in 1..Len(FoldValues)} :
                \A i \in 1..Len(FoldValues) : m <= FoldValues[i]
      [] TheCall.name = "max" ->
            CHOOSE m \in {FoldValues[i] : i \in 1..Len(FoldValues)} :
                \A i \in 1..Len(FoldValues) : m >= FoldValues[i]

\* C30: sum, min, max and average throw a TypeError at the first element (or
\* selector result) that is not a number, having pulled nothing after it;
\* they throw the 'Empty iterable' Error on an empty sequence, and return
\* the sum, least, greatest or mean value otherwise; count returns 0 on an
\* empty sequence and does not fail.
C30_NumericFolds ==
    (Invoked /\ TheCall.name \in {"sum", "min", "max", "average", "count"}) =>
        IF TheCall.name = "count"
        THEN /\ error = NoError
             /\ TheCall.predicate = NoFn => out[1] = <<Len(Source(chain))>>
             /\ Source(chain) = <<>> => out[1] = <<0>>
        ELSE IF NonNumbers # {}
        THEN /\ error = Errors_NonNumber /\ ThrownKind = "TypeError" /\ out[1] = <<>>
             /\ \A i \in NonNumbers : Cardinality(Pulls("A")) <= i
        ELSE IF Source(chain) = <<>>
        THEN error = Errors_Empty /\ ThrownKind = "Error" /\ out[1] = <<>>
        ELSE error = NoError /\ out[1] = <<FoldResult>>

\* sum(x => x > 0 ? x : undefined) over [2, 0, 1] has thrown at the second
\* element without pulling the third.
C30_Witness ==
    /\ Invoked /\ TheCall.name = "sum" /\ TheCall.selector = "ifPositive"
    /\ Source(chain) = <<2, 0, 1>>
    /\ error = Errors_NonNumber /\ Cardinality(Pulls("A")) = 2

\* The source of the fold holds an element that is not a number.
HasNonNumber == \E i \in 1..Len(Source(chain)) : Source(chain)[i] = Undefined

\* C31 (as claimed): count is numeric-only: called on a source that holds an
\* element that is not a number, it fails with the TypeError of sum, min, max
\* and average.
C31_CountNumericOnly ==
    (Invoked /\ TheCall.name = "count" /\ HasNonNumber) =>
        error = Errors_NonNumber

\* C31 (amended): count never fails: whatever the elements are, it returns
\* the number of elements, or of the elements that satisfy the predicate.
C31_CountCountsAnyElements ==
    (Invoked /\ TheCall.name = "count") =>
        /\ error = NoError
        /\ out[1] = <<Cardinality({i \in 1..Len(Source(chain)) :
                          \/ TheCall.predicate = NoFn
                          \/ Call(TheCall.predicate, Source(chain)[i], 0)})>>

\* count(isEven) over [undefined, 2, 1] has returned 1.
C31_Witness ==
    /\ Invoked /\ TheCall.name = "count" /\ TheCall.predicate = "isEven"
    /\ Source(chain) = <<Undefined, 2, 1>>
    /\ error = NoError /\ out[1] = <<1>>

(***************************************************************************)
(* Lookups: single, singleOrDefault or toMap called on from(a).            *)
(***************************************************************************)
MaxLookupLen == 3

SingleCall(name, predicate, defaultValue) ==
    [name |-> name, predicate |-> predicate, defaultValue |-> defaultValue]

ToMapCall(keyFn, valueFn) == [name |-> "toMap", keyFn |-> keyFn, valueFn |-> valueFn]

LookupCalls ==
    {SingleCall(name, predicate, defaultValue) :
        name \in {"single", "singleOrDefault"}, predicate \in {"isEven", "isPositive"},
        defaultValue \in Defaults}
    \cup {ToMapCall(keyFn, valueFn) : keyFn \in KeyFns, valueFn \in {NoFn, "succ"}}

\* The methods of the base class, which hand this to the aggregate.
Lazy_lookup(this, call) ==
    LET Mapped(r) ==
            IF r.err # NoError THEN Throw("Error", r.err, r.ev) ELSE Return(r.map, r.ev)
    IN  CASE call.name = "single" -> single(this, call.predicate)
          [] call.name = "singleOrDefault" ->
                singleOrDefault(this, call.predicate, call.defaultValue)
          [] call.name = "toMap" -> Mapped(toMap(this, call.keyFn, call.valueFn))

InitLookup ==
    /\ chain \in {LazyIterator(a, "A") : a \in SeqsUpTo(Elems, MaxLookupLen)}
    /\ cursors = [c \in CursorIds |-> NoCursor]
    /\ out = [c \in CursorIds |-> <<>>]
    /\ doneCalls = [c \in CursorIds |-> 0]
    /\ log = <<>>
    /\ error = NoError

\* The caller calls single, singleOrDefault or toMap on from(a).
Lookup(call) ==
    /\ Undriven /\ ~Invoked /\ error = NoError
    /\ LET Returned(r) ==
               /\ log' = log \o <<TerminalEv(call)>> \o r.ev
                             \o (IF r.err # NoError THEN <<ThrowEv(r.kind)>> ELSE <<>>)
               /\ error' = r.err
               /\ out' = [out EXCEPT ![1] = IF r.err = NoError THEN <<r.value>> ELSE <<>>]
       IN  Returned(Lazy_lookup(chain, call))
    /\ UNCHANGED <<chain, cursors, doneCalls>>

NextLookup == \E call \in LookupCalls : Lookup(call)

SpecLookup == InitLookup /\ [][NextLookup]_vars

\* The positions of the source whose element satisfies the predicate of the
\* call.
Satisfying ==
    {i \in 1..Len(Source(chain)) : Call(TheCall.predicate, Source(chain)[i], 0)}

\* C32: single(p) and singleOrDefault(p, d) return the first element that
\* satisfies p, having pulled nothing after it, also when several elements
\* satisfy p; when none does, single throws 'Empty iterable' and
\* singleOrDefault returns d.
C32_SingleReturnsFirstMatch ==
    (Invoked /\ TheCall.name \in {"single", "singleOrDefault"}) =>
        IF Satisfying # {}
        THEN /\ error = NoError
             /\ \A i \in Satisfying :
                   (\A j \in Satisfying : i <= j) =>
                       /\ out[1] = <<Source(chain)[i]>>
                       /\ Cardinality(Pulls("A")) = i
        ELSE IF TheCall.name = "single"
        THEN error = Errors_Empty /\ ThrownKind = "Error" /\ out[1] = <<>>
        ELSE error = NoError /\ out[1] = <<TheCall.defaultValue>>

\* single(isEven) over [1, 2, 0], where 2 and 0 are even, has returned 2
\* after two pulls.
C32_Witness ==
    /\ Invoked /\ TheCall.name = "single" /\ TheCall.predicate = "isEven"
    /\ Source(chain) = <<1, 2, 0>>
    /\ out[1] = <<2>> /\ Cardinality(Pulls("A")) = 2

\* The positions of the source whose key an earlier element has too.
RepeatedKeys ==
    {j \in 1..Len(Source(chain)) :
        \E i \in 1..(j - 1) :
            Call(TheCall.keyFn, Source(chain)[i], 0) = Call(TheCall.keyFn, Source(chain)[j], 0)}

\* C34: toMap throws 'Duplicate key found' at the first element whose key an
\* earlier element has, pulling nothing after it; when all keys differ it
\* returns the map with one entry for each element, in source order, from
\* keyFn(e) to valueFn(e), or to e when there is no valueFn.
C34_ToMapRejectsDuplicates ==
    (Invoked /\ TheCall.name = "toMap") =>
        IF RepeatedKeys # {}
        THEN /\ error = "Duplicate key found" /\ ThrownKind = "Error" /\ out[1] = <<>>
             /\ \A j \in RepeatedKeys : Cardinality(Pulls("A")) <= j
        ELSE /\ error = NoError
             /\ out[1] = <<[i \in 1..Len(Source(chain)) |->
                              <<Call(TheCall.keyFn, Source(chain)[i], 0),
                                KeyOf(TheCall.valueFn, Source(chain)[i])>>]>>

\* toMap(x => floor(x / 2)) over [2, 0, 1] has thrown at the third element,
\* whose key 0 the second has too.
C34_Witness ==
    /\ Invoked /\ TheCall.name = "toMap" /\ TheCall.keyFn = "half"
    /\ Source(chain) = <<2, 0, 1>>
    /\ error = "Duplicate key found" /\ Cardinality(Pulls("A")) = 3
(***************************************************************************)
(* SpecFactory: the static factories Lazy.range and Lazy.repeat, called    *)
(* with finite integer arguments and driven directly.  new LazyRepeat      *)
(* throws from its constructor when the count is negative; new LazyRange   *)
(* accepts any pair.                                                       *)
(***************************************************************************)
MaxRange == 4

MaxRepeat == 3

FactoryEv(call) == [k |-> "factory", n |-> call]

Constructed(s) == [seq |-> s, err |-> NoError]

Lazy_range(start, end) == Constructed(LazyRange(start, end))

\* A repeat that takes a negative count as zero instead of rejecting it.
Lazy_repeatClamped(element, times) ==
    Constructed(LazyRepeat(element, IF times # Infinity /\ times < 0 THEN 0 ELSE times))

Lazy_repeat(element, times) ==
    IF times # Infinity /\ times < 0
    THEN [seq |-> NoSeq, err |-> "Count cannot be < 0"]
    ELSE Constructed(LazyRepeat(element, times))

InitFactory ==
    /\ chain = NoSeq
    /\ cursors = [c \in CursorIds |-> NoCursor]
    /\ out = [c \in CursorIds |-> <<>>]
    /\ doneCalls = [c \in CursorIds |-> 0]
    /\ log = <<>>
    /\ error = NoError

\* The caller calls a factory; r is what its constructor returned or threw.
Factory(call, r) ==
    /\ chain = NoSeq /\ log = <<>> /\ error = NoError
    /\ chain' = r.seq
    /\ error' = r.err
    /\ log' = <<FactoryEv(call)>>
    /\ UNCHANGED <<cursors, out, doneCalls>>

Range ==
    \E start \in 0..MaxRange, end \in 0..MaxRange :
        Factory([name |-> "range", start |-> start, end |-> end],
                Lazy_range(start, end))

Repeat ==
    \E element \in {0, 1}, times \in {0 - 1} \cup 0..MaxRepeat :
        Factory([name |-> "repeat", element |-> element, count |-> times],
                Lazy_repeat(element, times))

IterateFactory == chain # NoSeq /\ Iterate(1)

NextFactory == Range \/ Repeat \/ IterateFactory \/ CallNext(1)

SpecFactory == InitFactory /\ [][NextFactory]_vars

Made == log # <<>> /\ log[1].k = "factory"

TheFactory == log[1].n

(***************************************************************************)
(* C35                                                                     *)
(***************************************************************************)
\* The |end - start| numbers from start toward end, end excluded.
Toward(start, end) ==
    [i \in 1..(IF end >= start THEN end - start ELSE start - end) |->
        IF end >= start THEN start + (i - 1) ELSE start - (i - 1)]

\* C35: range(start, end) over integers yields start first and steps by one
\* toward end without yielding end: |end - start| elements, ascending when
\* end >= start and descending otherwise.
C35_RangeStepsTowardEnd ==
    (Made /\ TheFactory.name = "range") =>
        /\ error = NoError
        /\ YieldsExactly(Toward(TheFactory.start, TheFactory.end))

C35_Witness ==
    /\ Made /\ TheFactory.name = "range"
    /\ TheFactory.start = 3 /\ TheFactory.end = 0
    /\ out[1] = <<3, 2, 1>> /\ doneCalls[1] > 0

(***************************************************************************)
(* C36                                                                     *)
(***************************************************************************)
\* C36: repeat(value, count) with count < 0 fails at construction, before
\* any cursor exists and before anything is yielded; with count >= 0 it
\* yields value exactly count times.
C36_RepeatCountChecked ==
    (Made /\ TheFactory.name = "repeat") =>
        IF TheFactory.count < 0
        THEN /\ error = "Count cannot be < 0"
             /\ chain = NoSeq /\ Undriven /\ Len(log) = 1 /\ out[1] = <<>>
        ELSE /\ error = NoError
             /\ YieldsExactly([i \in 1..TheFactory.count |-> TheFactory.element])

C36_Witness ==
    /\ Made /\ TheFactory.name = "repeat" /\ TheFactory.count < 0
    /\ error = "Count cannot be < 0" /\ Undriven

(***************************************************************************)
(* SpecCache: a chain with one callback, driven by up to two cursors,      *)
(* directly or after cache().  cache() is Lazy.from(this.toArray()): it    *)
(* drains the chain when it is called and wraps the resulting array.       *)
(***************************************************************************)
MaxCacheLen == 2

CacheEv(upstream) == [k |-> "cache", n |-> upstream]

\* A cache that hands back the chain itself, evaluating nothing.
Lazy_cacheDeferred(this) == [seq |-> this, ev |-> <<>>]

Lazy_cache(this) ==
    LET Resolved(r) == [seq |-> LazyIterator(r.vals, "cache"), ev |-> r.ev]
    IN  Resolved(toArray(this))

InitCache ==
    /\ chain \in UNION {{LazySelect(LazyIterator(a, "A"), "succ"),
                         LazyWhere(LazyIterator(a, "A"), "isEven")} :
                        a \in SeqsUpTo(Elems, MaxCacheLen)}
    /\ cursors = [c \in CursorIds |-> NoCursor]
    /\ out = [c \in CursorIds |-> <<>>]
    /\ doneCalls = [c \in CursorIds |-> 0]
    /\ log = <<>>
    /\ error = NoError

\* The caller calls cache() on the chain and keeps the result.
Cache ==
    /\ Undriven /\ log = <<>> /\ error = NoError
    /\ chain' = Lazy_cache(chain).seq
    /\ log' = <<CacheEv(chain)>> \o Lazy_cache(chain).ev
    /\ UNCHANGED <<cursors, out, doneCalls, error>>

NextCache == Cache \/ \E c \in CursorIds : Iterate(c) \/ CallNext(c)

SpecCache == InitCache /\ [][NextCache]_vars

Cached == log # <<>> /\ log[1].k = "cache"

Upstream == IF Cached THEN log[1].n ELSE chain

\* The positions of the log where a callback is called.
CallbackCalls == {i \in 1..Len(log) : log[i].k = "call"}

Obtainings == {i \in 1..Len(log) : log[i].k = "iterate"}

(***************************************************************************)
(* C37                                                                     *)
(***************************************************************************)
\* C37: cache() evaluates the upstream chain once, when it is called: all
\* callback calls and source pulls precede the first cursor, there is one
\* call per source element however often the cached sequence is driven, and
\* every drive yields the upstream's elements.  Without cache(), every
\* exhausted drive has called the callback once per source element.
C37_CacheEvaluatesOnce ==
    /\ Cached =>
           /\ Cardinality(CallbackCalls) = Len(Source(Upstream))
           /\ \A i \in CallbackCalls \cup Pulls("A") : \A j \in Obtainings : i < j
           /\ \A c \in CursorIds :
                  /\ IsPrefix(out[c], toArray(Upstream).vals)
                  /\ doneCalls[c] > 0 => out[c] = toArray(Upstream).vals
    /\ ~Cached =>
           /\ Cardinality(CallbackCalls)
                  >= Len(Source(chain)) * Cardinality({c \in CursorIds : doneCalls[c] > 0})
           /\ (\A c \in CursorIds : doneCalls[c] > 0)
                  => Cardinality(CallbackCalls) = 2 * Len(Source(chain))

C37_Witness ==
    /\ Cached /\ Upstream.op = "LazySelect" /\ Source(Upstream) = <<1, 2>>
    /\ \A c \in CursorIds : doneCalls[c] > 0 /\ out[c] = <<2, 3>>
    /\ Cardinality(CallbackCalls) = 2

(***************************************************************************)
(* SpecQueue: the window Queue on its own, under any sequence of enqueue   *)
(* and dequeue calls.  Here chain holds the Queue under test, out[1] what  *)
(* dequeue has returned, and the log the elements enqueued.                *)
(***************************************************************************)
MaxEnqueues == 6

EnqueueEv(element) == [k |-> "enqueue", n |-> element]

InitQueue ==
    /\ chain = Queue
    /\ cursors = [c \in CursorIds |-> NoCursor]
    /\ out = [c \in CursorIds |-> <<>>]
    /\ doneCalls = [c \in CursorIds |-> 0]
    /\ log = <<>>
    /\ error = NoError

Enqueue ==
    /\ error = NoError /\ Len(log) < MaxEnqueues
    /\ \E element \in {1, 2} :
           /\ chain' = enqueue(chain, element)
           /\ log' = Append(log, EnqueueEv(element))
    /\ UNCHANGED <<cursors, out, doneCalls, error>>

Dequeue ==
    /\ error = NoError
    /\ LET Returned(r) ==
               /\ chain' = r.q
               /\ error' = r.err
               /\ out' = [out EXCEPT ![1] = IF r.err = NoError THEN Append(@, r.element)
                                            ELSE @]
       IN  Returned(dequeue(chain))
    /\ UNCHANGED <<cursors, doneCalls, log>>

NextQueue == Enqueue \/ Dequeue

SpecQueue == InitQueue /\ [][NextQueue]_vars

\* The elements enqueued so far, oldest first.
Enqueued == [i \in 1..Len(log) |-> log[i].n]

\* What the Queue still holds, from its head.
Remaining == SubSeq(chain.buffer, chain.front + 1, Len(chain.buffer))

(***************************************************************************)
(* C38                                                                     *)
(***************************************************************************)
\* C38: the Queue is a FIFO sequence: what dequeue has returned followed by
\* what the Queue still holds is exactly what was enqueued, in order and
\* unmodified, and dequeue fails only on an empty Queue.
C38_QueueIsFifo ==
    /\ out[1] \o Remaining = Enqueued
    /\ error # NoError => Len(out[1]) = Len(Enqueued)

(***************************************************************************)
(* C39                                                                     *)
(***************************************************************************)
\* A next() on the exhausted cursor 1 that reports done and does nothing
\* else: no pull of an upstream cursor and no callback call is logged.
IdleDone ==
    /\ log' = Append(log, NextEv(1))
    /\ doneCalls' = [doneCalls EXCEPT ![1] = @ + 1]
    /\ out' = out

\* C39: exhaustion is latched for every operator cursor: once its next()
\* has returned done, every later next() returns done without calling next()
\* on an upstream cursor or invoking a callback.
C39_ExhaustionLatched ==
    [][(chain.op # "LazyIterator" /\ doneCalls[1] > 0) => IdleDone]_vars

\* A next() on the exhausted cursor 1 that reports done after at most one
\* more next() on the source's cursor, and calls no callback.
DoneAfterPull ==
    /\ log' \in {Append(log, NextEv(1)), log \o <<NextEv(1), PullEv("A")>>}
    /\ doneCalls' = [doneCalls EXCEPT ![1] = @ + 1]
    /\ out' = out

\* C39 (amended): exhaustion is latched for every operator cursor but that
\* of defaultIfEmpty over a source that was not empty, which on every later
\* next() calls next() on its upstream cursor again and reports done as the
\* upstream does; no cursor invokes a callback after it has reported done.
C39_ExhaustionLatchedButDefaultIfEmpty ==
    [][(chain.op # "LazyIterator" /\ doneCalls[1] > 0) =>
           IF chain.op = "LazyDefaultIfEmpty" /\ Source(chain) # <<>>
           THEN DoneAfterPull
           ELSE IdleDone]_vars

C39_Witness ==
    /\ chain.op = "LazySelect" /\ Source(chain) = <<1, 2>>
    /\ doneCalls[1] = 2 /\ out[1] # <<>>
    /\ Cardinality(Pulls("A")) = 3 /\ Cardinality(CallbackCalls) = 2

(***************************************************************************)
(* C40                                                                     *)
(***************************************************************************)
\* C40: over the whole life of a cursor take(n) calls next() on its upstream
\* at most n times: after yielding n elements it reports exhaustion without
\* pulling the (n+1)-th, and with n <= 0 it pulls nothing.
C40_TakePullsAtMostCount ==
    chain.op = "LazyTake" =>
        /\ Cardinality(Pulls("A")) <= Max(chain.count, 0)
        /\ (Len(out[1]) = chain.count /\ doneCalls[1] > 0)
               => Cardinality(Pulls("A")) = Max(chain.count, 0)

C40_Witness ==
    /\ chain.op = "LazyTake" /\ chain.count = 2 /\ Source(chain) = <<0, 1, 2>>
    /\ out[1] = <<0, 1>> /\ doneCalls[1] = MaxDoneCalls
    /\ Cardinality(Pulls("A")) = 2

====
